---- MODULE Spec2Model ----
(***************************************************************************)
(* A model of cbor_event's streaming CBOR decoder (src/src/de.rs).         *)
(*                                                                         *)
(* The Deserializer wraps one BufRead source.  The source is modelled as   *)
(* the byte sequence `input`, a read position `pos` (bytes consumed so     *)
(* far) and the end `avail` of the bytes the source currently exposes      *)
(* through fill_buf: the visible buffer is input[pos+1 .. avail].  `cap`   *)
(* is the capacity of the source's internal buffer; cap = 0 stands for a   *)
(* source that exposes all of its remaining content at once (io::Cursor).  *)
(*                                                                         *)
(* A u64 is an 8-tuple of bytes, most significant first (TLC's integers    *)
(* are 32 bits wide); an i64 is the same in two's complement.              *)
(***************************************************************************)
EXTENDS Integers, Sequences, FiniteSets, TLC

VARIABLES input, cap, pos, avail, op, arg, res, prePos, preAvail

vars == <<input, cap, pos, avail, op, arg, res, prePos, preAvail>>

\* ------------------------------------------------------------------ bounds
\* at most this many tokens are concatenated into one input
MaxItems == 2
\* the buffered source's capacity
BufCap == 2
\* the longest operand prefix generated behind a header byte
MaxTail == 9
\* at most this many chunks and other items inside an indefinite string
MaxChunks == 3
\* at most this many items behind an array or map header
MaxElems == 3

\* ------------------------------------------------------------- arithmetic
Min(a, b) == IF a < b THEN a ELSE b

Max(a, b) == IF a < b THEN b ELSE a

RECURSIVE Zeros(_)
Zeros(n) == IF n <= 0 THEN <<>> ELSE <<0>> \o Zeros(n - 1)

\* `b1 << 8*(k-1) | ... | bk` on u64 operands below 256: the bytes never
\* overlap, so the result's base-256 digits are the operands in that order
ShiftOr(bs) == Zeros(8 - Len(bs)) \o bs

\* a u64 that is below 2^24 (its five high bytes are zero)
Small(v) == \A i \in 1..5 : v[i] = 0

ToNat(v) == v[6] * 65536 + v[7] * 256 + v[8]

\* i < v for a small natural i and a u64 v
NatLess(i, v) == ~Small(v) \/ i < ToNat(v)

\* v > isize::MAX on a 64-bit target
AboveISizeMax(v) == v[1] >= 128

\* ------------------------------------------------------------ the source
Rd(x) == [pos |-> x.pos, avail |-> x.avail]

Ok(x, val) == [pos |-> x.pos, avail |-> x.avail, kind |-> "ok", val |-> val,
               err |-> <<>>, calls |-> 0]

Err(x, err) == [pos |-> x.pos, avail |-> x.avail, kind |-> "err", val |-> <<>>,
                err |-> err, calls |-> 0]

Panic(x, why) == [pos |-> x.pos, avail |-> x.avail, kind |-> "panic", val |-> <<>>,
                  err |-> <<why>>, calls |-> 0]

\* the `?` operator: a call that failed (or panicked) ends the function that
\* made it, which returns the call's outcome
Failed(x) == x.kind # "ok"

\* BufRead::fill_buf: the buffered bytes, refilled from the source only when
\* the buffer is empty
FillBuf(r) ==
    IF r.pos < r.avail THEN Rd(r)
    ELSE [pos |-> r.pos,
          avail |-> IF cap = 0 THEN Len(input) ELSE Min(r.pos + cap, Len(input))]

\* BufRead::consume
Consume(r, n) == [pos |-> Min(r.pos + n, r.avail), avail |-> r.avail]

\* Read::read into a buffer of `want` bytes: the number of bytes delivered
\* and the source afterwards.  A buffered source whose buffer is empty reads
\* straight from the underlying bytes when at least `cap` bytes are wanted.
ReadSome(r, want) ==
    IF r.pos = r.avail /\ want >= cap
    THEN [n |-> Min(want, Len(input) - r.pos),
          r |-> [pos |-> r.pos + Min(want, Len(input) - r.pos),
                 avail |-> r.pos + Min(want, Len(input) - r.pos)]]
    ELSE [n |-> Min(want, FillBuf(r).avail - r.pos),
          r |-> Consume(FillBuf(r), Min(want, FillBuf(r).avail - r.pos))]

\* the loop of Read::read_exact / Read::read_to_end over Read::read: stops
\* when `want` bytes were read or the source is at its end
RECURSIVE ReadLoop(_, _)
ReadMore(s, want) ==
    IF s.n = 0 THEN [r |-> s.r, left |-> want] ELSE ReadLoop(s.r, want - s.n)

ReadLoop(r, want) ==
    IF want = 0 THEN [r |-> Rd(r), left |-> 0] ELSE ReadMore(ReadSome(r, want), want)

\* the bytes input[from+1 .. to]
Slice(from, to) == SubSeq(input, from + 1, to)

\* the end of a read_exact that had to call read: all read, or UnexpectedEof
ReadExactEnd(r, l) ==
    IF l.left = 0 THEN Ok(l.r, Slice(r.pos, l.r.pos))
    ELSE Err(l.r, <<"IoError", "UnexpectedEof">>)

\* mutant: one Read::read instead of the loop of read_exact, the bytes it
\* delivered are the payload
ReadExactOnce(r, n) == Ok(ReadSome(r, n).r, Slice(r.pos, ReadSome(r, n).r.pos))

\* self.0.read_exact(&mut bytes) with bytes.len() = n
ReadExact(r, n) ==
    IF r.avail - r.pos >= n
    THEN Ok(Consume(r, n), Slice(r.pos, r.pos + n))
    ELSE ReadExactEnd(r, ReadLoop(r, n))

TakeReadEnd(r, l) == Ok(l.r, Slice(r.pos, l.r.pos))

\* self.0.by_ref().take(len).read_to_end(&mut bytes): a short read is no error
TakeReadToEnd(r, len) ==
    TakeReadEnd(r, ReadLoop(r, IF Small(len) THEN ToNat(len) ELSE Len(input) + 1))

\* mutant: the payload is read like a chunk of bytes(), a short read is taken
VecReadToEnd(r, len, allocOk) == TakeReadToEnd(r, len)

\* `let mut bytes = vec![0; len as usize]; self.0.read_exact(&mut bytes)?`
\* A length above isize::MAX panics (capacity overflow); a length of 2^24 or
\* more may fail to allocate (allocOk = FALSE aborts the process).
VecReadExact(r, len, allocOk) ==
    IF AboveISizeMax(len) THEN Panic(r, "capacity overflow")
    ELSE IF ~Small(len)
    THEN IF allocOk
         THEN Err(ReadLoop(r, Len(input) + 1).r, <<"IoError", "UnexpectedEof">>)
         ELSE Panic(r, "alloc")
    ELSE ReadExact(r, ToNat(len))

\* ---------------------------------------------------------------- get, uN
\* mutant: a byte beyond the buffer reads as zero instead of failing
BufGetLenient(f, index) ==
    IF index < f.avail - f.pos THEN Ok(f, <<input[f.pos + index + 1]>>)
    ELSE Ok(f, <<0>>)

\* buf.get(index) on the buffer f that fill_buf returned
BufGet(f, index) ==
    IF index < f.avail - f.pos THEN Ok(f, <<input[f.pos + index + 1]>>)
    ELSE Err(f, <<"NotEnough", f.avail - f.pos, index>>)

Get(r, index) == BufGet(FillBuf(r), index)

\* k successive self.u8(index + j)?, j = 0 .. k-1, stopping at the first
\* error: g is the outcome of the first, m of the others
RECURSIVE GetMany(_, _, _)
GetRest(g, m) == IF Failed(m) THEN m ELSE Ok(m, g.val \o m.val)

GetNext(g, index, k) ==
    IF Failed(g) THEN g ELSE GetRest(g, GetMany(g, index + 1, k - 1))

GetMany(r, index, k) ==
    IF k = 0 THEN Ok(r, <<>>) ELSE GetNext(Get(r, index), index, k)

\* `b1 << 8 | b2` and its like: the bytes read, most significant first
Word(g) == IF Failed(g) THEN g ELSE Ok(g, ShiftOr(g.val))

\* the two bytes read, least significant first
WordLittleEndian(g) == IF Failed(g) THEN g ELSE Ok(g, ShiftOr(<<g.val[2], g.val[1]>>))

U8(r, index) == Word(GetMany(r, index, 1))

\* mutant: the two bytes in little-endian order
U16LittleEndian(r, index) == WordLittleEndian(GetMany(r, index, 2))

U16(r, index) == Word(GetMany(r, index, 2))

U32(r, index) == Word(GetMany(r, index, 4))

U64(r, index) == Word(GetMany(r, index, 8))

\* ------------------------------------------------------------ the header
\* Type::from(u8): the major type is the top three bits
TypeFrom(b) ==
    CASE b \div 32 = 0 -> "UnsignedInteger"
      [] b \div 32 = 1 -> "NegativeInteger"
      [] b \div 32 = 2 -> "Bytes"
      [] b \div 32 = 3 -> "Text"
      [] b \div 32 = 4 -> "Array"
      [] b \div 32 = 5 -> "Map"
      [] b \div 32 = 6 -> "Tag"
      [] OTHER -> "Special"

\* `Ok(Type::from(self.get(0)?))`
CborTypeOf(g) == IF Failed(g) THEN g ELSE Ok(g, <<TypeFrom(g.val[1])>>)

CborType(r) == CborTypeOf(Get(r, 0))

\* `let t_ = self.cbor_type()?; if t_ != t { Err(..) } else { Ok(()) }`
ExpectType(c, t) ==
    IF Failed(c) THEN c
    ELSE IF c.val[1] # t THEN Err(c, <<"Expected", t, c.val[1]>>)
    ELSE Ok(c, <<>>)

\* mutant: any major type is accepted
CborExpectAnyType(r, t) == CborType(r)

CborExpectType(r, t) == ExpectType(CborType(r), t)

LenLen(v) == <<"Len", v>>

LenIndefinite == <<"Indefinite">>

IsIndefinite(len) == len[1] = "Indefinite"

\* `.map(|v| (Len::Len(v), sz))`: the (Len, usize) of cbor_len, as <<len, sz>>
LenOf(u, sz) == IF Failed(u) THEN u ELSE Ok(u, <<LenLen(u.val), sz>>)

\* the match of cbor_len on the masked byte b
CborLenMatch(g, b) ==
    CASE b <= 23 -> Ok(g, <<LenLen(ShiftOr(<<b>>)), 0>>)
      [] b = 24 -> LenOf(U8(g, 1), 1)
      [] b = 25 -> LenOf(U16(g, 1), 2)
      [] b = 26 -> LenOf(U32(g, 1), 4)
      [] b = 27 -> LenOf(U64(g, 1), 8)
      [] b \in 28..30 -> Err(g, <<"UnknownLenType", b>>)
      [] OTHER -> Ok(g, <<LenIndefinite, 0>>)

\* `let b: u8 = self.get(0)? & 0b0001_1111; match b`
CborLenOf(g) == IF Failed(g) THEN g ELSE CborLenMatch(g, g.val[1] % 32)

\* the header is consumed as soon as it is decoded
CborLenConsumingOf(g) ==
    IF Failed(g) THEN g
    ELSE IF g.val[1] % 32 <= 23
    THEN Ok(Consume(g, 1), <<LenLen(ShiftOr(<<g.val[1] % 32>>)), 0>>)
    ELSE IF g.val[1] % 32 = 31 THEN Ok(Consume(g, 1), <<LenIndefinite, 0>>)
    ELSE Err(g, <<"UnknownLenType", g.val[1] % 32>>)

\* mutant: cbor_len consumes
CborLenConsuming(r) == CborLenConsumingOf(Get(r, 0))

CborLen(r) == CborLenOf(Get(r, 0))

\* mutant: the header byte itself is not counted
AdvanceShort(r, len) == Consume(r, len - 1)

Advance(r, len) == Consume(r, len)

\* `self.cbor_expect_type(t)?; let (len, len_sz) = self.cbor_len()?;`: the
\* outcome of cbor_len, its val is <<len, len_sz>>
LenAfter(e) == IF Failed(e) THEN e ELSE CborLen(e)

ExpectedLen(r, t) == LenAfter(CborExpectType(r, t))

\* `self.cbor_expect_type(Type::Special)?; let b = self.get(0)?`
PeekAfter(e) == IF Failed(e) THEN e ELSE Get(e, 0)

\* ------------------------------------------------------ 64-bit arithmetic
\* x + 1 and x - 1 modulo 2^64, on the bytes from position i down
RECURSIVE AddOne(_, _)
AddOne(x, i) ==
    IF i = 0 THEN x
    ELSE IF x[i] = 255 THEN AddOne([x EXCEPT ![i] = 0], i - 1)
    ELSE [x EXCEPT ![i] = x[i] + 1]

RECURSIVE SubOne(_, _)
SubOne(x, i) ==
    IF i = 0 THEN x
    ELSE IF x[i] = 0 THEN SubOne([x EXCEPT ![i] = 255], i - 1)
    ELSE [x EXCEPT ![i] = x[i] - 1]

Not64(x) == [i \in 1..8 |-> 255 - x[i]]

I64Min == <<128, 0, 0, 0, 0, 0, 0, 0>>

\* wrapping negation of an i64
Neg64(x) == AddOne(Not64(x), 8)

\* `-(v as i64) - 1`: with overflow checks the negation of i64::MIN and the
\* subtraction from i64::MIN panic; without them both wrap
NegMinusOne(r, v, overflowChecks) ==
    IF overflowChecks /\ (v = I64Min \/ Neg64(v) = I64Min)
    THEN Panic(r, "overflow")
    ELSE Ok(r, SubOne(Neg64(v), 8))

\* ----------------------------------------------------- primitive readers
\* In each reader, l is the outcome of cbor_len on a header of the type the
\* reader expects.
UnsignedIntegerOf(l) ==
    IF Failed(l) THEN l
    ELSE IF IsIndefinite(l.val[1])
    THEN Err(l, <<"IndefiniteLenNotSupported", "UnsignedInteger">>)
    ELSE Ok(Advance(l, 1 + l.val[2]), l.val[1][2])

UnsignedInteger(r) == UnsignedIntegerOf(ExpectedLen(r, "UnsignedInteger"))

NegativeIntegerOf(l, overflowChecks) ==
    IF Failed(l) THEN l
    ELSE IF IsIndefinite(l.val[1])
    THEN Err(l, <<"IndefiniteLenNotSupported", "NegativeInteger">>)
    ELSE NegMinusOne(Advance(l, 1 + l.val[2]), l.val[1][2], overflowChecks)

\* the magnitude is returned as it is
NegativeIntegerMagnitudeOf(l) ==
    IF Failed(l) THEN l
    ELSE IF IsIndefinite(l.val[1])
    THEN Err(l, <<"IndefiniteLenNotSupported", "NegativeInteger">>)
    ELSE Ok(Advance(l, 1 + l.val[2]), l.val[1][2])

\* mutant: negative_integer returns the value of the header
NegativeIntegerMagnitude(r, overflowChecks) ==
    NegativeIntegerMagnitudeOf(ExpectedLen(r, "NegativeInteger"))

NegativeInteger(r, overflowChecks) ==
    NegativeIntegerOf(ExpectedLen(r, "NegativeInteger"), overflowChecks)

\* the break is recognised but left in the source
SpecialBreakNoAdvanceOf(g) == IF Failed(g) THEN g ELSE Ok(g, <<g.val[1] % 32 = 31>>)

\* `if b == 0x1f { self.advance(1)?; Ok(true) } else { Ok(false) }`
SpecialBreakOf(g) ==
    IF Failed(g) THEN g
    ELSE IF g.val[1] % 32 = 31 THEN Ok(Advance(g, 1), <<TRUE>>)
    ELSE Ok(g, <<FALSE>>)

\* mutant: special_break does not consume the break
SpecialBreakNoAdvance(r) ==
    SpecialBreakNoAdvanceOf(PeekAfter(CborExpectType(r, "Special")))

SpecialBreak(r) == SpecialBreakOf(PeekAfter(CborExpectType(r, "Special")))

\* the bytes that were read (the outcome t) come behind `acc`
Appended(t, acc) == IF Failed(t) THEN t ELSE Ok(t, acc \o t.val)

\* a nested indefinite chunk is reported as an unsupported length
BytesChunkUnsupportedOf(l, acc) ==
    IF Failed(l) THEN l
    ELSE IF IsIndefinite(l.val[1]) THEN Err(l, <<"IndefiniteLenNotSupported", "Bytes">>)
    ELSE Appended(TakeReadToEnd(Advance(l, 1 + l.val[2]), l.val[1][2]), acc)

\* mutant: the header of the chunk is not consumed before its payload is read
BytesChunkNoAdvanceOf(l, acc) ==
    IF Failed(l) THEN l
    ELSE IF IsIndefinite(l.val[1]) THEN Err(l, <<"InvalidIndefiniteString">>)
    ELSE Appended(TakeReadToEnd(l, l.val[1][2]), acc)

\* `match chunk_len` in bytes()
BytesChunkOf(l, acc) ==
    IF Failed(l) THEN l
    ELSE IF IsIndefinite(l.val[1]) THEN Err(l, <<"InvalidIndefiniteString">>)
    ELSE Appended(TakeReadToEnd(Advance(l, 1 + l.val[2]), l.val[1][2]), acc)

\* mutant: the wrong error for a nested indefinite chunk
BytesChunkUnsupported(r, acc) == BytesChunkUnsupportedOf(ExpectedLen(r, "Bytes"), acc)

\* the body of the `while` of bytes(): one chunk, appended to `acc`
BytesChunk(r, acc) == BytesChunkOf(ExpectedLen(r, "Bytes"), acc)

\* `while self.cbor_type()? != Type::Special || !self.special_break()?`:
\* c is the outcome of cbor_type, b of special_break, k of the body
RECURSIVE BytesLoop(_, _)
BytesBody(k) == IF Failed(k) THEN k ELSE BytesLoop(k, k.val)

BytesBreak(b, acc) ==
    IF Failed(b) THEN b
    ELSE IF b.val[1] THEN Ok(b, acc)
    ELSE BytesBody(BytesChunk(b, acc))

BytesTest(c, acc) ==
    IF Failed(c) THEN c
    ELSE IF c.val[1] # "Special" THEN BytesBody(BytesChunk(c, acc))
    ELSE BytesBreak(SpecialBreak(c), acc)

BytesLoop(r, acc) == BytesTest(CborType(r), acc)

\* `self.advance(1 + len_sz)?; match len` in bytes()
BytesOf(l, allocOk) ==
    IF Failed(l) THEN l
    ELSE IF IsIndefinite(l.val[1]) THEN BytesLoop(Advance(l, 1 + l.val[2]), <<>>)
    ELSE VecReadExact(Advance(l, 1 + l.val[2]), l.val[1][2], allocOk)

Bytes(r, allocOk) == BytesOf(ExpectedLen(r, "Bytes"), allocOk)

\* a continuation byte of UTF-8
Cont(s, i) == i <= Len(s) /\ s[i] \in 128..191

\* core::str::from_utf8: well-formed UTF-8 from position i on (no overlong
\* forms, no surrogates, nothing above U+10FFFF); b is the byte at i
RECURSIVE Utf8From(_, _)
Utf8Next(s, i, b) ==
    CASE b <= 127 -> Utf8From(s, i + 1)
      [] b \in 194..223 -> Cont(s, i + 1) /\ Utf8From(s, i + 2)
      [] b = 224 -> /\ i + 1 <= Len(s) /\ s[i + 1] \in 160..191
                    /\ Cont(s, i + 2) /\ Utf8From(s, i + 3)
      [] b \in (225..236) \cup {238, 239} ->
                    /\ Cont(s, i + 1) /\ Cont(s, i + 2) /\ Utf8From(s, i + 3)
      [] b = 237 -> /\ i + 1 <= Len(s) /\ s[i + 1] \in 128..159
                    /\ Cont(s, i + 2) /\ Utf8From(s, i + 3)
      [] b = 240 -> /\ i + 1 <= Len(s) /\ s[i + 1] \in 144..191
                    /\ Cont(s, i + 2) /\ Cont(s, i + 3) /\ Utf8From(s, i + 4)
      [] b \in 241..243 -> /\ Cont(s, i + 1) /\ Cont(s, i + 2)
                           /\ Cont(s, i + 3) /\ Utf8From(s, i + 4)
      [] b = 244 -> /\ i + 1 <= Len(s) /\ s[i + 1] \in 128..143
                    /\ Cont(s, i + 2) /\ Cont(s, i + 3) /\ Utf8From(s, i + 4)
      [] OTHER -> FALSE

Utf8From(s, i) == IF i > Len(s) THEN TRUE ELSE Utf8Next(s, i, s[i])

\* String::from_utf8(bytes)? on the outcome b of read_exact
FromUtf8(b) ==
    IF Failed(b) THEN b
    ELSE IF Utf8From(b.val, 1) THEN b
    ELSE Err(b, <<"FromUtf8Error">>)

\* the chunk is pushed as it was read
TextChunkUncheckedOf(l, acc, allocOk) ==
    IF Failed(l) THEN l
    ELSE IF IsIndefinite(l.val[1]) THEN Err(l, <<"InvalidIndefiniteString">>)
    ELSE Appended(VecReadExact(Advance(l, 1 + l.val[2]), l.val[1][2], allocOk), acc)

\* `match chunk_len` in text()
TextChunkOf(l, acc, allocOk) ==
    IF Failed(l) THEN l
    ELSE IF IsIndefinite(l.val[1]) THEN Err(l, <<"InvalidIndefiniteString">>)
    ELSE Appended(FromUtf8(VecReadExact(Advance(l, 1 + l.val[2]), l.val[1][2], allocOk)),
                  acc)

\* mutant: the chunks are not validated one by one
TextChunkUnchecked(r, acc, allocOk) ==
    TextChunkUncheckedOf(ExpectedLen(r, "Text"), acc, allocOk)

\* the body of the `while` of text(): one chunk, validated, pushed to `acc`
TextChunk(r, acc, allocOk) == TextChunkOf(ExpectedLen(r, "Text"), acc, allocOk)

RECURSIVE TextLoop(_, _, _)
TextBody(k, allocOk) == IF Failed(k) THEN k ELSE TextLoop(k, k.val, allocOk)

TextBreak(b, acc, allocOk) ==
    IF Failed(b) THEN b
    ELSE IF b.val[1] THEN Ok(b, acc)
    ELSE TextBody(TextChunk(b, acc, allocOk), allocOk)

TextTest(c, acc, allocOk) ==
    IF Failed(c) THEN c
    ELSE IF c.val[1] # "Special" THEN TextBody(TextChunk(c, acc, allocOk), allocOk)
    ELSE TextBreak(SpecialBreak(c), acc, allocOk)

TextLoop(r, acc, allocOk) == TextTest(CborType(r), acc, allocOk)

\* `self.advance(1 + len_sz)?; match len` in text()
TextOf(l, allocOk) ==
    IF Failed(l) THEN l
    ELSE IF IsIndefinite(l.val[1]) THEN TextLoop(Advance(l, 1 + l.val[2]), <<>>, allocOk)
    ELSE FromUtf8(VecReadExact(Advance(l, 1 + l.val[2]), l.val[1][2], allocOk))

Text(r, allocOk) == TextOf(ExpectedLen(r, "Text"), allocOk)

\* `self.advance(1 + sz)?; Ok(len)`
ArrayOf(l) == IF Failed(l) THEN l ELSE Ok(Advance(l, 1 + l.val[2]), l.val[1])

Array(r) == ArrayOf(ExpectedLen(r, "Array"))

MapOf(l) == IF Failed(l) THEN l ELSE Ok(Advance(l, 1 + l.val[2]), l.val[1])

Map(r) == MapOf(ExpectedLen(r, "Map"))

\* the length is checked on the peeked header, before it is consumed
TuplePeekFirstOf(l, expected_len) ==
    IF Failed(l) THEN l
    ELSE IF l.val[1] = LenLen(ShiftOr(<<expected_len>>))
    THEN Ok(Consume(l, 1 + l.val[2]), <<>>)
    ELSE Err(l, <<"WrongLen", expected_len, l.val[1]>>)

\* `match actual_len { Len::Len(len) if expected_len == len => Ok(()), _ =>
\* Err(WrongLen) }` on the outcome a of array()
TupleOf(a, expected_len) ==
    IF Failed(a) THEN a
    ELSE IF ~IsIndefinite(a.val) /\ a.val[2] = ShiftOr(<<expected_len>>) THEN Ok(a, <<>>)
    ELSE Err(a, <<"WrongLen", expected_len, a.val>>)

\* an array of indefinite length passes for one of any length
TupleOrIndefiniteOf(a, expected_len) ==
    IF Failed(a) THEN a
    ELSE IF IsIndefinite(a.val) \/ a.val[2] = ShiftOr(<<expected_len>>) THEN Ok(a, <<>>)
    ELSE Err(a, <<"WrongLen", expected_len, a.val>>)

\* mutant: tuple accepts an indefinite array
TupleOrIndefinite(r, expected_len) == TupleOrIndefiniteOf(Array(r), expected_len)

\* mutant: tuple checks before it consumes
TuplePeekFirst(r, expected_len) ==
    TuplePeekFirstOf(ExpectedLen(r, "Array"), expected_len)

Tuple(r, expected_len) == TupleOf(Array(r), expected_len)

TagOf(l) ==
    IF Failed(l) THEN l
    ELSE IF IsIndefinite(l.val[1]) THEN Err(l, <<"IndefiniteLenNotSupported", "Tag">>)
    ELSE Ok(Advance(l, 1 + l.val[2]), l.val[1][2])

Tag(r) == TagOf(ExpectedLen(r, "Tag"))

\* 258 = 0x0102
SetTagValue == <<0, 0, 0, 0, 0, 0, 1, 2>>

\* `if tag != 258 { Err(ExpectedSetTag) }` on the outcome t of tag()
SetTagOf(t) ==
    IF Failed(t) THEN t
    ELSE IF t.val # SetTagValue THEN Err(t, <<"ExpectedSetTag">>)
    ELSE Ok(t, <<>>)

\* mutant: set_tag accepts every tag
SetTagAny(r) == Tag(r)

SetTag(r) == SetTagOf(Tag(r))

\* mutant: the arm 0x18 of special() returns the selector, not the next byte
SpecialByteSelector(u) ==
    IF Failed(u) THEN u ELSE Ok(Advance(u, 2), <<"Unassigned", 24>>)

\* the arm 0x18 of special(): `let b = self.u8(1)?; self.advance(2)?`
SpecialByte(u) ==
    IF Failed(u) THEN u ELSE Ok(Advance(u, 2), <<"Unassigned", u.val[8]>>)

\* an arm of special() that peeks an n-byte operand: `let f = self.uN(1)?;
\* self.advance(1 + n)?`.  The value `f as f64` is kept as the integer f.
SpecialFloat(f, n) ==
    IF Failed(f) THEN f ELSE Ok(Advance(f, 1 + n), <<"Float", f.val>>)

\* the match of special() on the masked byte b
SpecialMatch(g, b) ==
    CASE b <= 19 -> Ok(Advance(g, 1), <<"Unassigned", b>>)
      [] b = 20 -> Ok(Advance(g, 1), <<"Bool", FALSE>>)
      [] b = 21 -> Ok(Advance(g, 1), <<"Bool", TRUE>>)
      [] b = 22 -> Ok(Advance(g, 1), <<"Null">>)
      [] b = 23 -> Ok(Advance(g, 1), <<"Undefined">>)
      [] b = 24 -> SpecialByte(U8(g, 1))
      [] b = 25 -> SpecialFloat(U16(g, 1), 2)
      [] b = 26 -> SpecialFloat(U32(g, 1), 4)
      [] b = 27 -> SpecialFloat(U64(g, 1), 8)
      [] b \in 28..30 -> Ok(Advance(g, 1), <<"Unassigned", b>>)
      [] OTHER -> Ok(Advance(g, 1), <<"Break">>)

SpecialOf(g) == IF Failed(g) THEN g ELSE SpecialMatch(g, g.val[1] % 32)

Special(r) == SpecialOf(PeekAfter(CborExpectType(r, "Special")))

\* Special::unwrap_bool on the outcome s of special()
UnwrapBool(s) ==
    IF Failed(s) THEN s
    ELSE IF s.val[1] = "Bool" THEN Ok(s, <<s.val[2]>>)
    ELSE Err(s, <<"CustomError", "Expected Special::Bool">>)

Bool(r) == UnwrapBool(Special(r))

\* ------------------------------------------------------------ Deserialize
\* `n > std::uN::MAX as u64` for a target of w bytes
AboveMax(n, w) == \E i \in 1..(8 - w) : n[i] # 0

\* `n as Self`: the low w bytes
CastTo(n, w) == SubSeq(n, 9 - w, 8)

\* mutant: the value is cast without the range check
UncheckedCast(n, w, err) == IF Failed(n) THEN n ELSE Ok(n, CastTo(n.val, w))

\* `if n > MAX { Err(err) } else { Ok(n as Self) }` on the outcome n of
\* unsigned_integer()
CheckedCast(n, w, err) ==
    IF Failed(n) THEN n
    ELSE IF AboveMax(n.val, w) THEN Err(n, <<err>>)
    ELSE Ok(n, CastTo(n.val, w))

\* impl Deserialize for u8 / u16 / u32: w = 1, 2, 4
DeserializeUInt(r, w, err) == CheckedCast(UnsignedInteger(r), w, err)

\* BTreeMap::insert: the later value replaces the earlier one of an equal key
MapInsert(m, k, v) == {p \in m : p[1] # k} \cup {<<k, v>>}

\* Types are <<"u8">>, <<"u16">>, <<"u32">>, <<"u64">>, <<"bool">>,
\* <<"String">>, <<"Vec", T>>, <<"BTreeMap", K, V>>, <<"Option", T>>,
\* <<"Array", N>> for [u8; N].  An item function is
\* the closure of Vec<T> (<<"push", T>>) or of BTreeMap<K, V>
\* (<<"insert", K, V>>); `acc` is the collection it captured.
RECURSIVE Deserialize(_, _, _)
RECURSIVE ItemFn(_, _, _, _)
RECURSIVE InternalItemsWith(_, _, _, _, _, _)

\* `self.internal_items_with(len, f)` on the outcome of array() or map()
ItemsOf(len, f, acc, allocOk) ==
    IF Failed(len) THEN len ELSE InternalItemsWith(len, len.val, f, acc, 0, allocOk)

ArrayWith(r, f, acc, allocOk) == ItemsOf(Array(r), f, acc, allocOk)

MapWith(r, f, acc, allocOk) == ItemsOf(Map(r), f, acc, allocOk)

\* `for byte in bytes.iter_mut() { *byte = Deserialize::deserialize(raw)?; }`
\* with n bytes left to fill: x is the outcome of the deserialize of one u8
RECURSIVE FillBytes(_, _, _)
NextByte(x, n, acc) == IF Failed(x) THEN x ELSE FillBytes(x, n - 1, acc \o x.val)

FillBytes(r, n, acc) ==
    IF n = 0 THEN Ok(r, acc) ELSE NextByte(DeserializeUInt(r, 1, "ExpectedU8"), n, acc)

\* mutant: the length of the array is not compared with N
StaticArrayUncheckedOf(a, N) == IF Failed(a) THEN a ELSE FillBytes(a, N, <<>>)

\* impl Deserialize for [u8; N]: the match on the outcome a of array()
StaticArrayOf(a, N) ==
    IF Failed(a) THEN a
    ELSE IF IsIndefinite(a.val) \/ a.val[2] # ShiftOr(<<N>>)
    THEN Err(a, <<"WrongLen", N, a.val, "static array">>)
    ELSE FillBytes(a, N, <<>>)

\* `Ok(Some(raw.deserialize()?))` on the outcome x of deserialize
SomeOf(x) == IF Failed(x) THEN x ELSE Ok(x, <<"Some", x.val>>)

\* mutant: every array that is not empty gives Some of its first element
OptionOfAnyLen(l, T, allocOk) ==
    IF Failed(l) THEN l
    ELSE IF l.val = <<"Len", Zeros(8)>> THEN Ok(l, <<"None">>)
    ELSE SomeOf(Deserialize(T, l, allocOk))

\* impl Deserialize for Option<T>: the match on the outcome l of array()
OptionOf(l, T, allocOk) ==
    IF Failed(l) THEN l
    ELSE IF l.val = <<"Len", Zeros(8)>> THEN Ok(l, <<"None">>)
    ELSE IF l.val = <<"Len", ShiftOr(<<1>>)>> THEN SomeOf(Deserialize(T, l, allocOk))
    ELSE Err(l, <<"CustomError", "Invalid Option<T>: received array of elements", l.val>>)

Deserialize(T, r, allocOk) ==
    CASE T[1] = "u8" -> DeserializeUInt(r, 1, "ExpectedU8")
      [] T[1] = "u16" -> DeserializeUInt(r, 2, "ExpectedU16")
      [] T[1] = "u32" -> DeserializeUInt(r, 4, "ExpectedU32")
      [] T[1] = "u64" -> UnsignedInteger(r)
      [] T[1] = "bool" -> Bool(r)
      [] T[1] = "String" -> Text(r, allocOk)
      [] T[1] = "Vec" -> ArrayWith(r, <<"push", T[2]>>, <<>>, allocOk)
      [] T[1] = "BTreeMap" -> MapWith(r, <<"insert", T[2], T[3]>>, {}, allocOk)
      [] T[1] = "Option" -> OptionOf(Array(r), T[2], allocOk)
      [] T[1] = "Array" -> StaticArrayOf(Array(r), T[2])

\* `vec.push(raw.deserialize()?)` on the outcome x of deserialize
Pushed(x, acc) == IF Failed(x) THEN x ELSE Ok(x, Append(acc, x.val))

\* `vec.insert(k, v)` on the outcomes k and v of the two deserialize
Inserted(k, v, acc) ==
    IF Failed(v) THEN v ELSE Ok(v, MapInsert(acc, k.val, v.val))

\* `let k = raw.deserialize()?; let v = raw.deserialize()?;`
KeyThenValue(k, V, acc, allocOk) ==
    IF Failed(k) THEN k ELSE Inserted(k, Deserialize(V, k, allocOk), acc)

\* one call of the closure: the outcome's val is the collection afterwards
ItemFn(f, r, acc, allocOk) ==
    IF f[1] = "push" THEN Pushed(Deserialize(f[2], r, allocOk), acc)
    ELSE KeyThenValue(Deserialize(f[2], r, allocOk), f[3], acc, allocOk)

\* mutant: after a failed call the loop skips a byte of the source
AfterItemConsuming(x, len, f, i, allocOk) ==
    IF Failed(x) THEN [Err(Consume(FillBuf(x), 1), x.err) EXCEPT !.calls = i]
    ELSE InternalItemsWith(x, len, f, x.val, i, allocOk)

\* the outcome x of the i-th call of f: an error ends the loop
AfterItem(x, len, f, i, allocOk) ==
    IF Failed(x) THEN [x EXCEPT !.calls = i]
    ELSE InternalItemsWith(x, len, f, x.val, i, allocOk)

\* the outcome b of special_break in the indefinite loop, before call i + 1
AfterBreak(b, len, f, acc, i, allocOk) ==
    IF Failed(b) THEN [b EXCEPT !.calls = i]
    ELSE IF b.val[1] THEN [Ok(b, acc) EXCEPT !.calls = i]
    ELSE AfterItem(ItemFn(f, b, acc, allocOk), len, f, i + 1, allocOk)

\* i is the number of calls of f made so far
InternalItemsWith(r, len, f, acc, i, allocOk) ==
    IF IsIndefinite(len) THEN AfterBreak(SpecialBreak(r), len, f, acc, i, allocOk)
    ELSE IF NatLess(i, len[2])
    THEN AfterItem(ItemFn(f, r, acc, allocOk), len, f, i + 1, allocOk)
    ELSE [Ok(r, acc) EXCEPT !.calls = i]

\* the trailing-data test is made on the bytes already buffered only
DeserializeCompleteBufferedOf(v) ==
    IF Failed(v) THEN v
    ELSE IF v.avail - v.pos > 0 THEN Err(v, <<"TrailingData">>)
    ELSE Ok(v, v.val)

\* `if self.0.fill_buf()?.len() > 0 { Err(Error::TrailingData) } else { Ok(v) }`
\* on the outcome v of deserialize
DeserializeCompleteOf(v) ==
    IF Failed(v) THEN v
    ELSE IF FillBuf(v).avail - FillBuf(v).pos > 0 THEN Err(FillBuf(v), <<"TrailingData">>)
    ELSE Ok(FillBuf(v), v.val)

\* mutant: deserialize_complete does not ask the source for more bytes
DeserializeCompleteBuffered(T, r, allocOk) ==
    DeserializeCompleteBufferedOf(Deserialize(T, r, allocOk))

DeserializeComplete(T, r, allocOk) == DeserializeCompleteOf(Deserialize(T, r, allocOk))

\* ------------------------------------------------------------ the inputs
\* the closures the composite readers are run with
ItemFns == {<<"push", <<"u8">>>>, <<"push", <<"bool">>>>}

PairFns == {<<"insert", <<"u8">>, <<"bool">>>>, <<"insert", <<"bool">>, <<"u8">>>>}


\* complete and incomplete encodings the general inputs are concatenated
\* from: integers, strings, array, map and tag headers, specials
Tokens ==
    { <<1>>, <<24, 200>>, <<32>>, <<65, 255>>, <<95>>, <<97, 97>>,
      <<130>>, <<159>>, <<161>>, <<193>>, <<244>>, <<255>> }

RECURSIVE Concats(_, _)
Concats(T, n) ==
    IF n = 0 THEN {<<>>}
    ELSE LET shorter == Concats(T, n - 1)
         IN  shorter \cup {s \o t : s \in shorter, t \in T}

\* byte sequences of the crate's own tests: complex_array, text_indefinite,
\* vec_bool_indefinite, btreemap_bool_indefinite, tag2 (shortened payload)
TestVectors ==
    { <<133, 100, 105, 111, 104, 107, 1, 32, 132, 0, 1, 2, 3, 16, 0, 1, 2, 3, 4, 5, 6>>,
      <<127, 100, 73, 69, 84, 70, 97, 97, 255>>,
      <<159, 244, 245, 244, 255>>,
      <<191, 244, 245, 245, 244, 255>>,
      <<130, 216, 24, 67, 82, 115, 111, 26, 113, 173, 88, 54>> }

Inputs == Concats(Tokens, MaxItems) \cup TestVectors

\* inputs about one header: a first byte of every major type and selector
\* of interest, followed by a prefix of an operand pattern
Selectors == {0, 23, 24, 25, 26, 27, 28, 30, 31}

HeaderBytes == {32 * t + s : t \in 0..7, s \in Selectors}

TailPattern == <<1, 2, 3, 4, 5, 6, 7, 8, 9, 10>>

\* operands that are 2^63, above it, 2^64 - 1, and 1 and 258 written in
\* 8 bytes
WideTails ==
    { <<128, 0, 0, 0, 0, 0, 0, 0, 9>>, <<128, 0, 0, 0, 0, 0, 0, 1, 9>>,
      <<255, 255, 255, 255, 255, 255, 255, 255, 9>>, <<0, 0, 0, 0, 0, 0, 0, 1, 9>>,
      <<0, 0, 0, 0, 0, 0, 1, 2, 9>> }

HdrInputs ==
    {<<h>> \o SubSeq(TailPattern, 1, n) : h \in HeaderBytes, n \in 0..MaxTail}
        \cup {<<32 * t + 27>> \o w : t \in 0..7, w \in WideTails}

\* inputs about one indefinite-length string of major type t (2 = Bytes,
\* 3 = Text): the opening byte, then chunks and other items.  The chunks
\* carry an ASCII byte, a break byte as payload, the two bytes of U+00E9
\* together and apart, a byte behind a two-byte header; the other items are a break, a nested indefinite
\* string, a chunk of the other string type and a special that is no break.
StrTokens(t) ==
    { <<32 * t>>, <<32 * t + 1, 97>>, <<32 * t + 1, 255>>, <<32 * t + 2, 195, 169>>,
      <<32 * t + 1, 195>>, <<32 * t + 1, 169>>, <<32 * t + 24, 1, 98>>,
      <<255>>, <<32 * t + 31>>, <<32 * (5 - t) + 1, 97>>, <<244>> }

\* definite-length strings: a payload that is complete, short, or not UTF-8
DefiniteStrings(t) ==
    { <<32 * t>>, <<32 * t + 1, 97>>, <<32 * t + 2, 195, 169>>, <<32 * t + 2, 195>>,
      <<32 * t + 2, 97, 195>>, <<32 * t + 2, 169, 195, 97>>, <<32 * t + 24, 2, 97, 98, 99>>,
      <<32 * t + 3, 226, 130, 172>>, <<32 * t + 3, 237, 160, 128>> }

StrInputs ==
    UNION {{<<32 * t + 31>> \o s : s \in Concats(StrTokens(t), MaxChunks)} : t \in {2, 3}}
        \cup UNION {DefiniteStrings(t) : t \in {2, 3}}

\* inputs about one array or map: a definite or indefinite header, then
\* items (integers of one, two and three bytes, booleans, a break)
SeqHeaders == {128, 129, 130, 131, 159, 160, 161, 162, 191}

SeqTokens == {<<1>>, <<24, 200>>, <<25, 1, 0>>, <<244>>, <<245>>, <<255>>}

SeqInputs == {<<h>> \o s : h \in SeqHeaders, s \in Concats(SeqTokens, MaxElems)}

Caps == {0, BufCap}

NoRes == [kind |-> "none", val |-> <<>>, err |-> <<>>, calls |-> 0]

InitWith(S) ==
    /\ input \in S
    /\ cap \in Caps
    /\ pos = 0
    /\ avail = 0
    /\ op = "new"
    /\ arg = <<>>
    /\ res = NoRes
    /\ prePos = 0
    /\ preAvail = 0

Init == InitWith(Inputs)

InitHdr == InitWith(HdrInputs)

InitStr == InitWith(StrInputs)

InitSeq == InitWith(SeqInputs)

Here == [pos |-> pos, avail |-> avail]

\* an allocation can only fail where a String is decoded
AllocChoices(f) ==
    IF \E i \in 2..Len(f) : f[i] = <<"String">> THEN BOOLEAN ELSE {TRUE}

\* one call of an operation of the Deserializer: `o` is its outcome
Call(name, a, o) ==
    /\ res.kind # "panic"
    /\ op' = name
    /\ arg' = a
    /\ res' = [kind |-> o.kind, val |-> o.val, err |-> o.err, calls |-> o.calls]
    /\ pos' = o.pos
    /\ avail' = o.avail
    /\ prePos' = pos
    /\ preAvail' = avail
    /\ UNCHANGED <<input, cap>>

DoCborType == Call("cbor_type", <<>>, CborType(Here))

DoCborLen == Call("cbor_len", <<>>, CborLen(Here))

DoUnsignedInteger == Call("unsigned_integer", <<>>, UnsignedInteger(Here))

\* the build checks arithmetic overflow or not
DoNegativeInteger ==
    \E overflowChecks \in BOOLEAN :
        Call("negative_integer", <<>>, NegativeInteger(Here, overflowChecks))

\* a large allocation succeeds or not
DoBytes == \E allocOk \in BOOLEAN : Call("bytes", <<>>, Bytes(Here, allocOk))

DoText == \E allocOk \in BOOLEAN : Call("text", <<>>, Text(Here, allocOk))

DoArray == Call("array", <<>>, Array(Here))

DoMap == Call("map", <<>>, Map(Here))

DoArrayWith ==
    \E f \in ItemFns : \E allocOk \in AllocChoices(f) :
        Call("array_with", f, ArrayWith(Here, f, <<>>, allocOk))

DoMapWith ==
    \E f \in PairFns : \E allocOk \in AllocChoices(f) :
        Call("map_with", f, MapWith(Here, f, {}, allocOk))

DoTuple == \E n \in 0..2 : Call("tuple", <<n>>, Tuple(Here, n))

DoTag == Call("tag", <<>>, Tag(Here))

DoSetTag == Call("set_tag", <<>>, SetTag(Here))

DoSpecialBreak == Call("special_break", <<>>, SpecialBreak(Here))

DoSpecial == Call("special", <<>>, Special(Here))

DoBool == Call("bool", <<>>, Bool(Here))

\* every operation, on the general inputs
Next ==
    \/ DoCborType
    \/ DoCborLen
    \/ DoUnsignedInteger
    \/ DoNegativeInteger
    \/ DoBytes
    \/ DoText
    \/ DoArray
    \/ DoMap
    \/ DoArrayWith
    \/ DoMapWith
    \/ DoTuple
    \/ DoTag
    \/ DoSetTag
    \/ DoSpecialBreak
    \/ DoSpecial
    \/ DoBool

Spec == Init /\ [][Next]_vars

\* the readers of one header, on the header inputs
NextHdr ==
    \/ DoCborType
    \/ DoCborLen
    \/ DoUnsignedInteger
    \/ DoNegativeInteger
    \/ DoArray
    \/ DoMap
    \/ DoTag
    \/ DoSpecialBreak
    \/ DoSpecial

SpecHdr == InitHdr /\ [][NextHdr]_vars

\* the string readers, on the string inputs
NextStr ==
    \/ DoBytes
    \/ DoText
    \/ DoCborType

SpecStr == InitStr /\ [][NextStr]_vars

\* the composite readers, on the array and map inputs
NextSeq ==
    \/ DoArrayWith
    \/ DoMapWith
    \/ DoArray
    \/ DoMap

SpecSeq == InitSeq /\ [][NextSeq]_vars

\* the types whole values are decoded as
DeTypes ==
    { <<"u8">>, <<"u64">>, <<"bool">>, <<"String">>,
      <<"Vec", <<"u8">>>>, <<"Vec", <<"bool">>>>, <<"BTreeMap", <<"bool">>, <<"u8">>>>,
      <<"Option", <<"u8">>>>, <<"Option", <<"bool">>>>, <<"Option", <<"Vec", <<"bool">>>>>> }

\* inputs about whole values: a first item (integers with a header of one,
\* two and three bytes, booleans, a break, a text, array headers of length 0,
\* 1 and 2 and of indefinite length, an array header of two bytes, an
\* indefinite array of one boolean, a map of one pair), then further items
DeTokens ==
    { <<1>>, <<24, 255>>, <<25, 1, 0>>, <<244>>, <<255>>, <<97, 97>>,
      <<128>>, <<129>>, <<130>>, <<159>>, <<152, 1>>, <<159, 244, 255>>, <<161, 244, 1>> }

DeTails ==
    {<<1>>, <<24, 255>>, <<244>>, <<255>>, <<152, 1>>, <<159, 244, 255>>, <<161, 244, 1>>}

DeInputs == {t \o s : t \in DeTokens \cup {<<>>}, s \in Concats(DeTails, MaxItems - 1)}

InitDe == InitWith(DeInputs)

DoDeserialize ==
    \E T \in DeTypes : \E allocOk \in AllocChoices(<<"push", T>>) :
        Call("deserialize", <<T, allocOk>>, Deserialize(T, Here, allocOk))

DoDeserializeComplete ==
    \E T \in DeTypes : \E allocOk \in AllocChoices(<<"push", T>>) :
        Call("deserialize_complete", <<T, allocOk>>, DeserializeComplete(T, Here, allocOk))

\* whole values, on the value inputs
NextDe ==
    \/ DoDeserialize
    \/ DoDeserializeComplete

SpecDe == InitDe /\ [][NextDe]_vars

\* the unsigned integer types
UIntTypes == {<<"u8">>, <<"u16">>, <<"u32">>, <<"u64">>}

\* inputs about one unsigned integer: the largest value of each width and
\* the value above it, in the shortest encoding and in longer ones, an
\* indefinite header and a negative integer; then further integers
IntTokens ==
    { <<0>>, <<23>>, <<24, 255>>, <<25, 0, 255>>, <<25, 1, 0>>, <<25, 255, 255>>,
      <<26, 0, 0, 255, 255>>, <<26, 0, 1, 0, 0>>, <<26, 255, 255, 255, 255>>,
      <<27, 0, 0, 0, 0, 0, 0, 0, 255>>, <<27, 0, 0, 0, 0, 0, 0, 1, 0>>,
      <<27, 0, 0, 0, 0, 255, 255, 255, 255>>, <<27, 0, 0, 0, 1, 0, 0, 0, 0>>,
      <<27, 255, 255, 255, 255, 255, 255, 255, 255>>, <<31>>, <<32>> }

IntTails == {<<1>>, <<24, 255>>, <<25, 1, 0>>}

IntInputs == {t \o s : t \in IntTokens, s \in Concats(IntTails, MaxItems - 1)}

InitInt == InitWith(IntInputs)

DoDeserializeUInt ==
    \E T \in UIntTypes : Call("deserialize", <<T, TRUE>>, Deserialize(T, Here, TRUE))

\* the unsigned integer types, on the integer inputs
NextInt == DoDeserializeUInt \/ DoUnsignedInteger

SpecInt == InitInt /\ [][NextInt]_vars

\* strings of major type t (2 = Bytes, 3 = Text) that are cut short below:
\* definite ones with a header of one, two and three bytes, one behind an
\* empty string, one followed by another item; indefinite ones of two chunks,
\* of a chunk with a two-byte header, of a chunk that holds a break byte, and
\* of a last chunk that swallows the break
WholeStrings(t) ==
    { <<32 * t + 3, 97, 98, 99>>, <<32 * t + 2, 195, 169>>, <<32 * t + 24, 2, 97, 98>>,
      <<32 * t + 25, 0, 1, 97>>, <<32 * t, 32 * t + 24, 2, 97, 98>>,
      <<32 * t + 2, 97, 98, 1>>,
      <<32 * t + 31, 32 * t + 2, 97, 98, 32 * t + 1, 99, 255>>,
      <<32 * t + 31, 32 * t + 24, 2, 97, 98, 255>>,
      <<32 * t + 31, 32 * t + 2, 97, 255, 255>>,
      <<32 * t + 31, 32 * t + 1, 97, 32 * t + 2, 98, 255>> }

\* inputs about truncation: every prefix of those strings
TruncInputs ==
    UNION {{SubSeq(s, 1, n) : n \in 0..Len(s)} : s \in WholeStrings(2) \cup WholeStrings(3)}

InitTrunc == InitWith(TruncInputs)

\* the string readers, on the truncated inputs
NextTrunc ==
    \/ DoBytes
    \/ DoText

SpecTrunc == InitTrunc /\ [][NextTrunc]_vars

\* the map types decoded
MapTypes == {<<"BTreeMap", <<"u8">>, <<"bool">>>>, <<"BTreeMap", <<"bool">>, <<"u8">>>>}

\* inputs about one map: a header of length 1, 2 or 3 or of indefinite
\* length, pairs of an integer key and a boolean or of a boolean key and an
\* integer, keys repeated and not, then a break or nothing
PairTokens == {<<1, 244>>, <<1, 245>>, <<2, 245>>, <<244, 1>>, <<244, 2>>}

MapInputs ==
    {<<h>> \o s \o e : h \in {161, 162, 163, 191}, s \in Concats(PairTokens, MaxElems),
                       e \in {<<>>, <<255>>}}

InitMap == InitWith(MapInputs)

DoDeserializeMap ==
    \E T \in MapTypes : Call("deserialize", <<T, TRUE>>, Deserialize(T, Here, TRUE))

\* maps, on the map inputs
NextMap == DoDeserializeMap

SpecMap == InitMap /\ [][NextMap]_vars

\* the sizes N of the [u8; N] decoded: the smallest, and the smallest whose
\* array header has two bytes
ArraySizes == {1, 2, 24}

\* elements of an array of bytes: integers of one, two and three bytes, a
\* value of one byte written in three, a boolean
ByteTokens == {<<1>>, <<24, 255>>, <<25, 1, 0>>, <<25, 0, 7>>, <<244>>}

\* the integers 0 .. 23
Ramp == [i \in 1..24 |-> i - 1]

\* inputs about one array of bytes, alone or behind an integer: a header of
\* length 0 to 3, of indefinite length, or of two bytes, then elements; and
\* arrays of 24 and of 23 elements with a header of two bytes
ArrayInputs ==
    {p \o h \o s : p \in {<<>>, <<1>>},
                   h \in {<<128>>, <<129>>, <<130>>, <<131>>, <<159>>, <<152, 1>>, <<152, 2>>},
                   s \in Concats(ByteTokens, MaxItems)}
        \cup {p \o <<152, n>> \o Ramp : p \in {<<>>, <<1>>}, n \in {23, 24}}

InitArr == InitWith(ArrayInputs)

DoDeserializeArray ==
    \E N \in ArraySizes :
        Call("deserialize", <<<<"Array", N>>, TRUE>>, Deserialize(<<"Array", N>>, Here, TRUE))

\* arrays of bytes, on the array inputs
NextArr ==
    \/ DoDeserializeArray
    \/ DoUnsignedInteger

SpecArr == InitArr /\ [][NextArr]_vars

\* every operation, on the header inputs
SpecPrim == InitHdr /\ [][Next]_vars

\* ================================================================ claims
\* What the encoding itself says about the bytes at an offset p of the
\* input, stated without the decoder.

Pre == [pos |-> prePos, avail |-> preAvail]

\* the number of bytes the source shows to a reader that starts at Pre
Window ==
    IF prePos < preAvail THEN preAvail - prePos
    ELSE IF cap = 0 THEN Len(input) - prePos
    ELSE Min(cap, Len(input) - prePos)

HasByte(p) == p < Len(input)

Major(p) == input[p + 1] \div 32

Selector(p) == input[p + 1] % 32

\* the operand bytes behind a header byte with selector s
ExtraOf(s) == CASE s = 24 -> 1 [] s = 25 -> 2 [] s = 26 -> 4 [] s = 27 -> 8 [] OTHER -> 0

HeadSize(p) == 1 + ExtraOf(Selector(p))

\* the header at p is all there
HeadPresent(p) == HasByte(p) /\ p + HeadSize(p) <= Len(input)

\* the big-endian operand of the header at p as a natural number, or one
\* more than the input holds when it is 2^24 or more
RECURSIVE BigEndian(_, _)
BigEndian(p, k) == IF k = 0 THEN 0 ELSE BigEndian(p, k - 1) * 256 + input[p + k]

Operand(p) ==
    LET k == ExtraOf(Selector(p))
    IN  IF k = 0 THEN Selector(p)
        ELSE IF \E i \in 1..(k - 3) : input[p + 1 + i] # 0 THEN Len(input) + 1
        ELSE BigEndian(p + 1 + Max(0, k - 3), Min(k, 3))

\* where the chunks that start at q end: behind the first break at a chunk
\* boundary; -1 when the input ends or another item comes first
RECURSIVE ChunksEnd(_, _)
ChunksEnd(t, q) ==
    IF ~HasByte(q) THEN -1
    ELSE IF input[q + 1] = 255 THEN q + 1
    ELSE IF Major(q) # t \/ Selector(q) > 27 \/ ~HeadPresent(q) THEN -1
    ELSE IF q + HeadSize(q) + Operand(q) > Len(input) THEN -1
    ELSE ChunksEnd(t, q + HeadSize(q) + Operand(q))

\* where the string at p ends
StringEnd(p) ==
    IF ~HeadPresent(p) THEN -1
    ELSE IF Selector(p) = 31 THEN ChunksEnd(Major(p), p + 1)
    ELSE p + HeadSize(p) + Operand(p)

HeaderReaders == {"unsigned_integer", "negative_integer", "array", "map", "tag", "special"}

\* C1: a successful unsigned_integer, negative_integer, array, map, tag or
\* special has advanced the read position by the header alone (1 + operand
\* bytes), a successful bytes or text by header, payload, every chunk and
\* the closing break: the next read starts at the first byte behind the value.
C1_ExactAdvance ==
    /\ (res.kind = "ok" /\ op \in HeaderReaders) =>
           /\ HeadPresent(prePos)
           /\ pos = prePos + HeadSize(prePos)
    /\ (res.kind = "ok" /\ op \in {"bytes", "text"}) => pos = StringEnd(prePos)

\* an indefinite text of two chunks read whole, from a buffered source
C1_Witness ==
    /\ op = "text" /\ res.kind = "ok" /\ cap # 0
    /\ Selector(prePos) = 31 /\ pos = prePos + 9 /\ Len(res.val) = 5

\* C2 as stated: a call that returns an error has not moved the read position.
C2_NoAdvanceOnError == res.kind = "err" => pos = prePos

\* the readers that consume nothing before their last check
FailFastOps ==
    {"cbor_type", "cbor_len", "unsigned_integer", "negative_integer", "array", "map",
     "tag", "special", "special_break"}

\* the error a reader built on a header reader adds after the header is consumed
LateError ==
    CASE op = "tuple" -> "WrongLen"
      [] op = "set_tag" -> "ExpectedSetTag"
      [] op = "bool" -> "CustomError"
      [] OTHER -> "none"

\* the major type a reader expects
Wanted ==
    CASE op = "bytes" -> 2
      [] op = "text" -> 3
      [] op = "array_with" -> 4
      [] op = "map_with" -> 5
      [] OTHER -> 8

\* the reader's own header is of the wanted type and is read without error
OwnHeaderRead ==
    /\ Window >= 1
    /\ Major(prePos) = Wanted
    /\ Selector(prePos) \notin 28..30
    /\ Window >= HeadSize(prePos)

\* C2 amended: an error leaves the read position unchanged when the call
\* fails before consuming anything: always for the fail-fast readers, and for
\* the others when reading the item's own header fails.  tuple failing with
\* WrongLen, set_tag with ExpectedSetTag and bool on a special that is no Bool
\* have consumed the header; bytes, text, array_with and map_with failing
\* behind their header have consumed at least that header.
C2_ErrorPosition ==
    res.kind = "err" =>
        /\ op \in FailFastOps => pos = prePos
        /\ op \in {"tuple", "set_tag", "bool"} =>
               IF res.err[1] = LateError THEN pos = prePos + HeadSize(prePos)
               ELSE pos = prePos
        /\ op \in {"bytes", "text", "array_with", "map_with"} =>
               IF OwnHeaderRead THEN pos >= prePos + HeadSize(prePos)
               ELSE pos = prePos

\* a tuple that failed behind its header, after an earlier read
C2_Witness ==
    /\ op = "tuple" /\ res.kind = "err" /\ res.err[1] = "WrongLen"
    /\ prePos > 0 /\ pos = prePos + 1

\* one call of the operation `name` from the source state r
Run(name, a, r, e) ==
    CASE name = "cbor_type" -> CborType(r)
      [] name = "cbor_len" -> CborLen(r)
      [] name = "unsigned_integer" -> UnsignedInteger(r)
      [] name = "negative_integer" -> NegativeInteger(r, e)
      [] name = "bytes" -> Bytes(r, e)
      [] name = "text" -> Text(r, e)
      [] name = "array" -> Array(r)
      [] name = "map" -> Map(r)
      [] name = "array_with" -> ArrayWith(r, a, <<>>, e)
      [] name = "map_with" -> MapWith(r, a, {}, e)
      [] name = "tuple" -> Tuple(r, a[1])
      [] name = "tag" -> Tag(r)
      [] name = "set_tag" -> SetTag(r)
      [] name = "special_break" -> SpecialBreak(r)
      [] name = "special" -> Special(r)
      [] name = "bool" -> Bool(r)

\* every call the model makes, as <<name, argument>>
AllCalls ==
    {<<n, <<>>>> : n \in FailFastOps \cup {"bytes", "text", "set_tag", "bool"}}
        \cup {<<"array_with", f>> : f \in ItemFns}
        \cup {<<"map_with", f>> : f \in PairFns}
        \cup {<<"tuple", <<n>>>> : n \in 0..2}

SameOutcome(x, y) ==
    /\ x.kind = y.kind
    /\ x.pos = y.pos
    /\ x.calls = y.calls
    /\ x.kind # "ok" => (x.err[1] = y.err[1] /\ x.err = y.err)
    /\ x.kind = "ok" => x.val = y.val

\* C3: cbor_type and cbor_len leave the read position where it was, whether
\* they succeed or fail; calling them again gives the same result; and every
\* read that follows ends as it would have ended without them.
C3_PeekIsPure ==
    op \in {"cbor_type", "cbor_len"} =>
        /\ pos = prePos
        /\ LET again == Run(op, arg, Here, TRUE)
           IN  /\ again.pos = pos
               /\ SameOutcome(again, [pos |-> pos, kind |-> res.kind, val |-> res.val,
                                      err |-> res.err, calls |-> res.calls])
        /\ \A c \in AllCalls, e \in BOOLEAN :
               SameOutcome(Run(c[1], c[2], Here, e), Run(c[1], c[2], Pre, e))

\* a peek that had to refill the buffer, in the middle of the input, and
\* after which a read can succeed
C3_Witness ==
    /\ op = "cbor_len" /\ res.kind = "ok" /\ prePos > 0 /\ preAvail = prePos
    /\ avail > preAvail /\ UnsignedInteger(Here).kind = "ok"

\* C7 as stated: special_break on a break byte advances by one and returns
\* true; on every other next byte it returns false without advancing.
C7_SpecialBreak ==
    (op = "special_break" /\ Window >= 1) =>
        IF input[prePos + 1] = 255
        THEN res.kind = "ok" /\ res.val = <<TRUE>> /\ pos = prePos + 1
        ELSE res.kind = "ok" /\ res.val = <<FALSE>> /\ pos = prePos

\* the u64 whose base-256 digits are the k bytes behind offset p, most
\* significant first
DigitsAt(p, k) == [i \in 1..8 |-> IF i <= 8 - k THEN 0 ELSE input[p + i - (8 - k)]]

\* C4: cbor_len on the low five bits s of the next byte: s <= 0x17 gives
\* (Len(s), 0); s = 0x18 .. 0x1b gives (Len(v), 1 | 2 | 4 | 8) with v the
\* big-endian value of the 1, 2, 4 or 8 bytes that follow; s = 0x1c .. 0x1e
\* fails with UnknownLenType(s); s = 0x1f gives (Indefinite, 0); operand bytes
\* that are not all buffered make it fail with NotEnough.
C4_CborLen ==
    (op = "cbor_len" /\ Window >= 1) =>
        LET s == Selector(prePos)
            k == ExtraOf(s)
        IN  CASE s <= 23 ->
                   /\ res.kind = "ok"
                   /\ res.val = <<<<"Len", <<0, 0, 0, 0, 0, 0, 0, s>>>>, 0>>
              [] s \in 24..27 ->
                   IF Window >= 1 + k
                   THEN /\ res.kind = "ok"
                        /\ res.val = <<<<"Len", DigitsAt(prePos + 1, k)>>, k>>
                        /\ k <= 2 => ToNat(res.val[1][2]) = BigEndian(prePos + 1, k)
                   ELSE res.kind = "err" /\ res.err[1] = "NotEnough"
              [] s \in 28..30 -> res.kind = "err" /\ res.err = <<"UnknownLenType", s>>
              [] OTHER -> res.kind = "ok" /\ res.val = <<<<"Indefinite">>, 0>>

\* an eight-byte operand whose bytes all differ, decoded in order
C4_Witness ==
    /\ op = "cbor_len" /\ res.kind = "ok" /\ Selector(prePos) = 27
    /\ res.val = <<<<"Len", <<1, 2, 3, 4, 5, 6, 7, 8>>>>, 8>>

\* ------------------------------------------------ arrays and maps (C5, C6)
\* an element of type T (<<"u8">> or <<"bool">>) is encoded whole at q
ElemOk(T, q) ==
    /\ HasByte(q)
    /\ IF T = <<"u8">> THEN Major(q) = 0 /\ Selector(q) <= 24 /\ HeadPresent(q)
       ELSE input[q + 1] \in {244, 245}

ElemVal(T, q) == IF T = <<"u8">> THEN <<Operand(q)>> ELSE <<input[q + 1] = 245>>

\* where n elements of type T that start at q end; -1 when one is missing
RECURSIVE DefiniteEnd(_, _, _)
DefiniteEnd(T, q, n) ==
    IF n = 0 THEN q
    ELSE IF ~ElemOk(T, q) THEN -1
    ELSE DefiniteEnd(T, q + HeadSize(q), n - 1)

\* the position of the break that closes the elements of type T from q on;
\* -1 when there is none
RECURSIVE BreakAt(_, _)
BreakAt(T, q) ==
    IF ~HasByte(q) THEN -1
    ELSE IF input[q + 1] = 255 THEN q
    ELSE IF ~ElemOk(T, q) THEN -1
    ELSE BreakAt(T, q + HeadSize(q))

\* the elements of type T encoded from q up to stop, in order
RECURSIVE ElemVals(_, _, _)
ElemVals(T, q, stop) ==
    IF q >= stop THEN <<>>
    ELSE <<ElemVal(T, q)>> \o ElemVals(T, q + HeadSize(q), stop)

\* the same for pairs of a key of type K and a value of type V
PairOk(K, V, q) == ElemOk(K, q) /\ ElemOk(V, q + HeadSize(q))

PairSize(q) == HeadSize(q) + HeadSize(q + HeadSize(q))

RECURSIVE DefinitePairsEnd(_, _, _, _)
DefinitePairsEnd(K, V, q, n) ==
    IF n = 0 THEN q
    ELSE IF ~PairOk(K, V, q) THEN -1
    ELSE DefinitePairsEnd(K, V, q + PairSize(q), n - 1)

RECURSIVE PairsBreakAt(_, _, _)
PairsBreakAt(K, V, q) ==
    IF ~HasByte(q) THEN -1
    ELSE IF input[q + 1] = 255 THEN q
    ELSE IF ~PairOk(K, V, q) THEN -1
    ELSE PairsBreakAt(K, V, q + PairSize(q))

RECURSIVE CountPairs(_, _)
CountPairs(q, stop) == IF q >= stop THEN 0 ELSE 1 + CountPairs(q + PairSize(q), stop)

\* every header from q up to stop is one byte, or the source is in memory:
\* each header is visible whole when it is peeked
RECURSIVE HeadsVisible(_, _)
HeadsVisible(q, stop) ==
    \/ cap = 0
    \/ q >= stop
    \/ HeadSize(q) = 1 /\ HeadsVisible(q + 1 + Operand(q) * (IF Major(q) \in {2, 3} THEN 1 ELSE 0), stop)

\* the first byte behind the well-formed array (map) of T (of K and V) at
\* prePos; -1 when the bytes at prePos are no such array (map)
ArrayEnd(T) ==
    IF Window = 0 \/ Major(prePos) # 4 THEN -1
    ELSE IF Selector(prePos) <= 23 THEN DefiniteEnd(T, prePos + 1, Selector(prePos))
    ELSE IF Selector(prePos) # 31 \/ BreakAt(T, prePos + 1) = -1 THEN -1
    ELSE BreakAt(T, prePos + 1) + 1

MapEnd(K, V) ==
    IF Window = 0 \/ Major(prePos) # 5 THEN -1
    ELSE IF Selector(prePos) <= 23
    THEN DefinitePairsEnd(K, V, prePos + 1, Selector(prePos))
    ELSE IF Selector(prePos) # 31 \/ PairsBreakAt(K, V, prePos + 1) = -1 THEN -1
    ELSE PairsBreakAt(K, V, prePos + 1) + 1

\* the first byte behind the last element: the break of an indefinite array
LastElemEnd(end) == IF Selector(prePos) = 31 THEN end - 1 ELSE end

\* C5 as stated: array_with on a well-formed array, definite or indefinite,
\* of elements of any type T returns Ok, has called the item function once
\* per element (n times for the definite length n, up to the break otherwise),
\* has decoded the elements in encounter order and has consumed the array
\* with its break.
C5_ArrayWith ==
    (/\ op = "array_with"
     /\ ArrayEnd(arg[2]) # -1
     /\ HeadsVisible(prePos + 1, LastElemEnd(ArrayEnd(arg[2])))) =>
        /\ res.kind = "ok"
        /\ res.val = ElemVals(arg[2], prePos + 1, LastElemEnd(ArrayEnd(arg[2])))
        /\ res.calls = Len(res.val)
        /\ Selector(prePos) <= 23 => res.calls = Selector(prePos)
        /\ pos = ArrayEnd(arg[2])

\* C6 as stated: map_with on a well-formed map, definite or indefinite, of
\* keys and values of any types returns Ok and has called the pair function
\* once per pair (n times for the definite length n, up to the break
\* otherwise), each call decoding the key and then the value.
C6_MapWith ==
    (/\ op = "map_with"
     /\ MapEnd(arg[2], arg[3]) # -1
     /\ HeadsVisible(prePos + 1, LastElemEnd(MapEnd(arg[2], arg[3])))) =>
        /\ res.kind = "ok"
        /\ res.calls = CountPairs(prePos + 1, LastElemEnd(MapEnd(arg[2], arg[3])))
        /\ Selector(prePos) <= 23 => res.calls = Selector(prePos)
        /\ pos = MapEnd(arg[2], arg[3])

\* --------------------------------------- indefinite strings (C8, C9, C10)
\* the payload of the definite chunk (or string) whose header is at q
Payload(q) == Slice(q + HeadSize(q), q + HeadSize(q) + Operand(q))

\* the chunk (or string) at q is of major type t, definite and all there
ChunkOk(t, q) ==
    /\ HasByte(q) /\ Major(q) = t /\ Selector(q) <= 27 /\ HeadPresent(q)
    /\ q + HeadSize(q) + Operand(q) <= Len(input)

\* the first item from q on that is no complete definite chunk of type t:
\* the break, another item, or the end of the input
RECURSIVE FirstNonChunk(_, _)
FirstNonChunk(t, q) ==
    IF ChunkOk(t, q) THEN FirstNonChunk(t, q + HeadSize(q) + Operand(q)) ELSE q

\* the payloads of the chunks from q up to stop, one after the other
RECURSIVE Payloads(_, _)
Payloads(q, stop) ==
    IF q >= stop THEN <<>>
    ELSE Payload(q) \o Payloads(q + HeadSize(q) + Operand(q), stop)

\* every chunk from q up to stop is valid UTF-8 on its own
RECURSIVE EachValid(_, _)
EachValid(q, stop) ==
    \/ q >= stop
    \/ Utf8From(Payload(q), 1) /\ EachValid(q + HeadSize(q) + Operand(q), stop)

\* bytes() or text() was called on the opening byte of an indefinite string
\* of its own type
OnIndefinite ==
    /\ op \in {"bytes", "text"}
    /\ Window >= 1
    /\ Major(prePos) = Wanted
    /\ Selector(prePos) = 31

\* the item at which the chunks of that string stop
Stop == FirstNonChunk(Wanted, prePos + 1)

\* the chunks before Stop are read without error: their headers are visible
\* whole when they are peeked and, for a text, each is valid UTF-8
ChunksReadable ==
    /\ HeadsVisible(prePos + 1, Stop)
    /\ op = "text" => EachValid(prePos + 1, Stop)

\* bytes() or text() was called on an indefinite string of definite chunks
\* (each valid UTF-8 in a text) closed by a break
OnChunkedString ==
    /\ OnIndefinite
    /\ HasByte(Stop) /\ input[Stop + 1] = 255
    /\ op = "text" => EachValid(prePos + 1, Stop)

\* the call returned the chunk payloads in order and ended behind the break
ChunksReturned ==
    /\ res.kind = "ok"
    /\ res.val = Payloads(prePos + 1, Stop)
    /\ pos = Stop + 1

\* C8 as stated: bytes() / text() on any indefinite string of k >= 0
\* definite chunks and a break returns the concatenation of the chunk
\* payloads in order; the loop ends at the first break at a chunk boundary,
\* which is consumed once, and nothing behind it is consumed.
C8_AnyChunkedString == OnChunkedString => ChunksReturned

\* C8 amended: the same, provided every chunk header is visible whole in the
\* source's buffer when it is read (always so in memory and for headers of
\* one byte); otherwise the call may fail with NotEnough, returning no value.
C8_ChunksConcatenated ==
    OnChunkedString =>
        IF HeadsVisible(prePos + 1, Stop) THEN ChunksReturned
        ELSE \/ ChunksReturned
             \/ res.kind = "err" /\ res.err[1] = "NotEnough" /\ res.val = <<>>

\* a chunk with a break byte as payload, read from a buffered source, with
\* another chunk left behind the closing break
C8_Witness ==
    /\ op = "bytes" /\ res.kind = "ok" /\ cap # 0 /\ Window >= 1 /\ Selector(prePos) = 31
    /\ res.val = <<255>> /\ pos = prePos + 4 /\ pos < Len(input)

\* the name of a major type
MajorName(m) ==
    CASE m = 0 -> "UnsignedInteger" [] m = 1 -> "NegativeInteger" [] m = 2 -> "Bytes"
      [] m = 3 -> "Text" [] m = 4 -> "Array" [] m = 5 -> "Map" [] m = 6 -> "Tag"
      [] OTHER -> "Special"

\* the item at Stop is there and is no break
BadItem == HasByte(Stop) /\ input[Stop + 1] # 255

\* C9: inside an indefinite string every item before the break must be a
\* definite chunk of the same major type: a chunk of indefinite length makes
\* bytes() / text() fail with InvalidIndefiniteString, an item of another
\* major type (a special that is no break included) with Expected(Bytes or
\* Text, the item's type); no value is returned in either case.  The call
\* fails whatever comes before the item; the error is the one named when
\* the chunks before the item are read without error.
C9_BadChunk ==
    (OnIndefinite /\ BadItem /\ (Major(Stop) # Wanted \/ Selector(Stop) = 31)) =>
        /\ res.kind = "err"
        /\ res.val = <<>>
        /\ (ChunksReadable /\ Major(Stop) = Wanted) =>
               res.err = <<"InvalidIndefiniteString">>
        /\ (ChunksReadable /\ Major(Stop) # Wanted) =>
               res.err = <<"Expected", MajorName(Wanted), MajorName(Major(Stop))>>

\* a nested indefinite chunk behind a good chunk
C9_Witness ==
    /\ OnIndefinite /\ op = "bytes" /\ Stop > prePos + 1 /\ HasByte(Stop)
    /\ input[Stop + 1] = 95 /\ res.err = <<"InvalidIndefiniteString">>

\* text() was called on the header of a definite text whose payload is there
OnDefiniteText ==
    /\ op = "text" /\ Window >= 1 /\ Selector(prePos) <= 27
    /\ ChunkOk(3, prePos)

\* the call returned the payload when it is valid UTF-8 and failed otherwise
ValidExactly ==
    IF Utf8From(Payload(prePos), 1)
    THEN res.kind = "ok" /\ res.val = Payload(prePos)
    ELSE res.kind = "err" /\ res.err = <<"FromUtf8Error">>

\* C10 as stated: text() validates UTF-8 chunk by chunk: an indefinite text
\* succeeds only if every chunk is valid UTF-8 on its own, so bytes that are
\* valid as a whole but split a code point between two chunks fail with a
\* UTF-8 error; a definite text succeeds exactly when its payload is valid
\* UTF-8.
C10_ValidExactly ==
    /\ (OnIndefinite /\ op = "text" /\ res.kind = "ok") => EachValid(prePos + 1, Stop)
    /\ (/\ OnIndefinite /\ op = "text"
        /\ HasByte(Stop) /\ input[Stop + 1] = 255
        /\ HeadsVisible(prePos + 1, Stop)
        /\ ~EachValid(prePos + 1, Stop)) =>
           res.kind = "err" /\ res.err = <<"FromUtf8Error">>
    /\ OnDefiniteText => ValidExactly

\* C10 amended: the same, the definite text succeeding exactly when its
\* payload is valid UTF-8 provided its header is visible whole in the
\* source's buffer; a header whose extension bytes are not all buffered makes
\* text() fail with NotEnough, valid or not.
C10_Utf8PerChunk ==
    /\ (OnIndefinite /\ op = "text" /\ res.kind = "ok") =>
           /\ pos = Stop + 1
           /\ EachValid(prePos + 1, Stop)
    /\ (/\ OnIndefinite /\ op = "text"
        /\ HasByte(Stop) /\ input[Stop + 1] = 255
        /\ HeadsVisible(prePos + 1, Stop)
        /\ ~EachValid(prePos + 1, Stop)) =>
           res.kind = "err" /\ res.err = <<"FromUtf8Error">>
    /\ OnDefiniteText =>
           IF Window >= HeadSize(prePos) THEN ValidExactly
           ELSE res.kind = "err" /\ res.err[1] = "NotEnough"

\* the two bytes of U+00E9 in two chunks: valid as a whole, refused
C10_Witness ==
    /\ OnIndefinite /\ op = "text" /\ res.kind = "err" /\ res.err = <<"FromUtf8Error">>
    /\ HasByte(Stop) /\ input[Stop + 1] = 255
    /\ Payloads(prePos + 1, Stop) = <<195, 169>>
    /\ Utf8From(Payloads(prePos + 1, Stop), 1)

\* --------------------------------------------- integers and tags (C11-C19)
\* the header at Pre is of major type t, definite, and visible whole
OnDefiniteHeader(t) ==
    /\ Window >= 1
    /\ Major(prePos) = t
    /\ Selector(prePos) <= 27
    /\ Window >= HeadSize(prePos)

\* the value the header at Pre carries
Magnitude ==
    IF Selector(prePos) <= 23 THEN <<0, 0, 0, 0, 0, 0, 0, Selector(prePos)>>
    ELSE DigitsAt(prePos + 1, ExtraOf(Selector(prePos)))

\* C11 as stated: negative_integer on a NegativeInteger header of definite
\* magnitude v returns -1 - v for every v below 2^64: the call succeeds, the
\* result is the 64-bit two's complement of -1 - v (the complement of v) and
\* it is strictly negative (its sign bit is set).
C11_NegativeInteger ==
    (op = "negative_integer" /\ OnDefiniteHeader(1)) =>
        /\ res.kind = "ok"
        /\ res.val = Not64(Magnitude)
        /\ res.val[1] >= 128

\* C12 as stated: no operation panics, whatever the bytes of the input:
\* every call returns a value or an error.
C12_NoPanic == res.kind # "panic"

\* ------------------------------------------------ whole values (C13, C18)
\* the first byte behind the value of type T encoded at p, as the encoding
\* defines it; -1 when the bytes at p are no such value.  CountEnd is the
\* end of n items whose types cycle through Ts, BreakEnd the end of the
\* items up to the break that closes them; i is the number of items passed.
RECURSIVE ValueEnd(_, _)
RECURSIVE CountEnd(_, _, _, _)
RECURSIVE BreakEnd(_, _, _)
CountEnd(Ts, q, n, i) ==
    IF q = -1 THEN -1
    ELSE IF n = 0 THEN q
    ELSE CountEnd(Ts, ValueEnd(Ts[(i % Len(Ts)) + 1], q), n - 1, i + 1)

BreakEnd(Ts, q, i) ==
    IF q = -1 \/ ~HasByte(q) THEN -1
    ELSE IF input[q + 1] = 255 /\ i % Len(Ts) = 0 THEN q + 1
    ELSE BreakEnd(Ts, ValueEnd(Ts[(i % Len(Ts)) + 1], q), i + 1)

ItemsEnd(Ts, p, t) ==
    IF Major(p) # t \/ Selector(p) \in 28..30 THEN -1
    ELSE IF Selector(p) = 31 THEN BreakEnd(Ts, p + 1, 0)
    ELSE CountEnd(Ts, p + HeadSize(p), Operand(p) * Len(Ts), 0)

ValueEnd(T, p) ==
    IF ~HeadPresent(p) THEN -1
    ELSE CASE T[1] \in {"u8", "u16", "u32", "u64"} ->
                IF Major(p) = 0 /\ Selector(p) <= 27 THEN p + HeadSize(p) ELSE -1
           [] T[1] = "bool" -> IF input[p + 1] \in {244, 245} THEN p + 1 ELSE -1
           [] T[1] = "String" -> IF Major(p) = 3 THEN StringEnd(p) ELSE -1
           [] T[1] = "Vec" -> ItemsEnd(<<T[2]>>, p, 4)
           [] T[1] = "BTreeMap" -> ItemsEnd(<<T[2], T[3]>>, p, 5)
           [] T[1] = "Option" ->
                IF Selector(p) <= 27 /\ Operand(p) <= 1 THEN ItemsEnd(<<T[2]>>, p, 4)
                ELSE -1

\* what decoding one value of the type asked for gives, from where the
\* call started
OneValue == Deserialize(arg[1], Pre, arg[2])

\* C13: deserialize_complete<T> returns Ok(v) exactly when decoding one T
\* succeeds with v and no byte of the source is left unconsumed behind it; when
\* the value decodes and a byte remains it fails with TrailingData;
\* a successful deserialize<T> has consumed the encoding of one value and no
\* byte behind it.
C13_DeserializeComplete ==
    /\ op = "deserialize_complete" =>
           /\ res.kind = "ok" <=> (OneValue.kind = "ok" /\ OneValue.pos = Len(input))
           /\ res.kind = "ok" => res.val = OneValue.val /\ pos = Len(input)
           /\ (OneValue.kind = "ok" /\ OneValue.pos < Len(input)) =>
                  res.kind = "err" /\ res.err = <<"TrailingData">>
    /\ (op = "deserialize" /\ res.kind = "ok") => pos = ValueEnd(arg[1], prePos)

\* a value that ends where the buffer of a buffered source ends, with more
\* bytes behind it in the source
C13_Witness ==
    /\ op = "deserialize_complete" /\ res.kind = "err" /\ res.err = <<"TrailingData">>
    /\ cap # 0 /\ OneValue.kind = "ok" /\ OneValue.avail = OneValue.pos
    /\ pos = OneValue.pos /\ avail > pos

\* the major type each primitive reader expects
TypedReaders ==
    [unsigned_integer |-> 0, negative_integer |-> 1, bytes |-> 2, text |-> 3,
     array |-> 4, map |-> 5, tag |-> 6, special |-> 7, special_break |-> 7]

ValueReaders == {"unsigned_integer", "negative_integer", "tag"}

\* the reader called is a value reader and the next byte is of its type
OnOwnType ==
    /\ op \in ValueReaders
    /\ Window >= 1
    /\ Major(prePos) = TypedReaders[op]

\* the indefinite selector is refused and nothing is consumed
IndefiniteRefused ==
    /\ res.kind = "err"
    /\ res.err = <<"IndefiniteLenNotSupported", MajorName(Major(prePos))>>
    /\ pos = prePos

\* C15 as stated: unsigned_integer, negative_integer and tag on a header of
\* their type: selector 0x1f fails with IndefiniteLenNotSupported(type) and
\* consumes nothing; a definite header (selector up to 0x1b) makes the call
\* return the value of the header itself and consume 1 + extra bytes.
C15_HeaderValue ==
    OnOwnType =>
        /\ Selector(prePos) = 31 => IndefiniteRefused
        /\ (Selector(prePos) <= 27 /\ HeadPresent(prePos)) =>
               /\ res.kind = "ok"
               /\ res.val = Magnitude
               /\ pos = prePos + HeadSize(prePos)

\* what negative_integer makes of the magnitude v: -1 - v, whose 64 bits are
\* the complement of v, for v < 2^63; for v >= 2^63 the wrapped value, which
\* is not negative, or for v = 2^63 a panic
NegativeOutcome ==
    IF Magnitude[1] < 128 THEN res.kind = "ok" /\ res.val = Not64(Magnitude)
    ELSE \/ res.kind = "ok" /\ res.val = Not64(Magnitude)
         \/ res.kind = "panic" /\ Magnitude = I64Min

\* C15 amended: selector 0x1f is refused as stated; on a definite header
\* that is visible whole in the source's buffer unsigned_integer and tag
\* return the value v of the header, negative_integer returns -1 - v (for
\* v >= 2^63 the wrapped value or a panic), and 1 + extra bytes are consumed;
\* a definite header whose extra bytes are not all buffered fails with
\* NotEnough and consumes nothing.
C15_DefiniteHeader ==
    OnOwnType =>
        /\ Selector(prePos) = 31 => IndefiniteRefused
        /\ (Selector(prePos) <= 27 /\ Window >= HeadSize(prePos)) =>
               /\ pos = prePos + HeadSize(prePos)
               /\ IF op = "negative_integer" THEN NegativeOutcome
                  ELSE res.kind = "ok" /\ res.val = Magnitude
        /\ (Selector(prePos) <= 27 /\ Window < HeadSize(prePos)) =>
               res.kind = "err" /\ res.err[1] = "NotEnough" /\ pos = prePos

\* -2 read from a two-byte header, from a buffered source
C15_Witness ==
    /\ OnOwnType /\ op = "negative_integer" /\ cap # 0 /\ Selector(prePos) = 24
    /\ res.kind = "ok" /\ res.val = <<255, 255, 255, 255, 255, 255, 255, 254>>
    /\ pos = prePos + 2

\* C16: a successful tag() returns the tag number and has consumed the tag
\* header (1 + extra bytes) and nothing of the tagged value: the read that
\* follows sees the first byte behind the header; set_tag() on a tag that
\* tag() reads succeeds exactly when the tag number is 258, however it is
\* encoded, and fails with ExpectedSetTag for every other number.
C16_TagHeaderOnly ==
    /\ (op = "tag" /\ res.kind = "ok") =>
           /\ Major(prePos) = 6 /\ HeadPresent(prePos)
           /\ res.val = Magnitude
           /\ pos = prePos + HeadSize(prePos)
           /\ HasByte(pos) =>
                  /\ Get(Here, 0).kind = "ok"
                  /\ Get(Here, 0).val = <<input[prePos + HeadSize(prePos) + 1]>>
    /\ (op = "set_tag" /\ OnDefiniteHeader(6)) =>
           IF Magnitude = <<0, 0, 0, 0, 0, 0, 1, 2>>
           THEN res.kind = "ok" /\ pos = prePos + HeadSize(prePos)
           ELSE res.kind = "err" /\ res.err = <<"ExpectedSetTag">>
    /\ (op = "set_tag" /\ res.kind = "ok") =>
           OnDefiniteHeader(6) /\ Magnitude = <<0, 0, 0, 0, 0, 0, 1, 2>>

\* tag 258 written in eight bytes, accepted
C16_Witness ==
    /\ op = "set_tag" /\ res.kind = "ok" /\ Selector(prePos) = 27
    /\ pos = prePos + 9 /\ HasByte(pos)

\* the next byte opens an array
OnArray == op = "tuple" /\ Window >= 1 /\ Major(prePos) = 4

\* tuple's verdict on the array header at Pre, its length known: Ok with the
\* header alone consumed when the length is definite and equals expected_len,
\* WrongLen(expected_len, actual length) otherwise
TupleVerdict ==
    IF Selector(prePos) = 31
    THEN res.kind = "err" /\ res.err = <<"WrongLen", arg[1], <<"Indefinite">>>>
    ELSE IF Magnitude = ShiftOr(<<arg[1]>>)
    THEN res.kind = "ok" /\ pos = prePos + HeadSize(prePos)
    ELSE res.kind = "err" /\ res.err = <<"WrongLen", arg[1], <<"Len", Magnitude>>>>

\* an Ok of tuple comes from a definite array of expected_len elements
TupleOkOnlyIfEqual ==
    (op = "tuple" /\ res.kind = "ok") =>
        /\ Window >= 1 /\ Major(prePos) = 4 /\ Selector(prePos) <= 27
        /\ HeadPresent(prePos)
        /\ Magnitude = ShiftOr(<<arg[1]>>)
        /\ pos = prePos + HeadSize(prePos)

\* C17 as stated: tuple(expected_len, label) returns Ok exactly when the
\* next item is a definite-length array of expected_len elements; on a
\* definite array of another length and on an indefinite array it fails with
\* WrongLen(expected_len, actual length, label); when it returns Ok only the
\* array header has been consumed.
C17_Tuple ==
    /\ (/\ OnArray
        /\ Selector(prePos) \notin 28..30
        /\ HeadPresent(prePos)) => TupleVerdict
    /\ TupleOkOnlyIfEqual

\* C17 amended: the same for an array header that is visible whole in the
\* source's buffer; a definite array header whose extra bytes are not all
\* buffered makes tuple fail with NotEnough, whatever its length.
C17_TupleVisible ==
    /\ (/\ OnArray
        /\ Selector(prePos) \notin 28..30
        /\ Window >= HeadSize(prePos)) => TupleVerdict
    /\ (/\ OnArray
        /\ Selector(prePos) <= 27
        /\ Window < HeadSize(prePos)) =>
           res.kind = "err" /\ res.err[1] = "NotEnough" /\ pos = prePos
    /\ TupleOkOnlyIfEqual

\* an array of one element with a header of two bytes, from a buffered source
C17_Witness ==
    /\ OnArray /\ res.kind = "ok" /\ cap # 0
    /\ Selector(prePos) = 24 /\ arg = <<1>> /\ pos = prePos + 2

\* an Option is decoded and the next byte opens an array
OnOption ==
    /\ op = "deserialize" /\ arg[1][1] = "Option"
    /\ Window >= 1 /\ Major(prePos) = 4 /\ Selector(prePos) \notin 28..30

\* the source behind the array header, and what decoding one element of the
\* Option's type gives there
AfterHeader == [pos |-> prePos + HeadSize(prePos), avail |-> FillBuf(Pre).avail]

Element == Deserialize(arg[1][2], AfterHeader, arg[2])

\* the array header is consumed and nothing behind it
HeaderOnly == pos = prePos + HeadSize(prePos)

\* the outcome by the length of the array: None for 0, Some(element) for 1
\* (the element's own failure when it does not decode), an error with no
\* element decoded for every other length and for an indefinite array
OptionVerdict ==
    IF Selector(prePos) = 31 \/ Magnitude \notin {Zeros(8), ShiftOr(<<1>>)}
    THEN res.kind = "err" /\ res.err[1] = "CustomError" /\ HeaderOnly
    ELSE IF Magnitude = Zeros(8) THEN res.kind = "ok" /\ res.val = <<"None">> /\ HeaderOnly
    ELSE IF Element.kind = "ok"
    THEN res.kind = "ok" /\ res.val = <<"Some", Element.val>> /\ pos = Element.pos
    ELSE res.kind = Element.kind /\ res.err = Element.err

\* C18 as stated: Option<T>, for every element type T, decodes a definite
\* array of length 0 as None and of length 1 as Some(the decoded element),
\* and gives an error without decoding any element for a definite array of
\* length 2 or more and for an indefinite array.
C18_Option == (OnOption /\ HeadPresent(prePos)) => OptionVerdict

\* C18 amended: the same for an array header that is visible whole in the
\* source's buffer; a definite array header whose extra bytes are not all
\* buffered gives NotEnough, whatever the length, and nothing is consumed.
C18_OptionVisible ==
    /\ (OnOption /\ Window >= HeadSize(prePos)) => OptionVerdict
    /\ (OnOption /\ Selector(prePos) <= 27 /\ Window < HeadSize(prePos)) =>
           res.kind = "err" /\ res.err[1] = "NotEnough" /\ pos = prePos

\* Some(an array of one boolean)
C18_Witness ==
    /\ OnOption /\ arg[1][2] = <<"Vec", <<"bool">>>>
    /\ res.kind = "ok" /\ res.val = <<"Some", <<<<FALSE>>>>>> /\ pos = prePos + 4

\* the bytes of each unsigned integer type and the error of its range check
WidthOf == [u8 |-> 1, u16 |-> 2, u32 |-> 4, u64 |-> 8]

RangeError == [u8 |-> "ExpectedU8", u16 |-> "ExpectedU16", u32 |-> "ExpectedU32"]

\* an unsigned integer type is decoded
OnUInt == op = "deserialize" /\ arg[1][1] \in DOMAIN WidthOf

\* the value n of the header at Pre is at most the maximum of w bytes
Fits(w) == \A i \in 1..(8 - w) : Magnitude[i] = 0

\* C19: decoding a u8, u16, u32 or u64 reads one unsigned_integer n: when
\* n is at most the maximum of the type the call returns n unchanged, when n
\* is above it the call fails with ExpectedU8, ExpectedU16 or ExpectedU32; a
\* value returned is never a truncated one, and u64 does not fail on range.
C19_RangeChecked ==
    /\ (OnUInt /\ OnDefiniteHeader(0)) =>
           IF Fits(WidthOf[arg[1][1]])
           THEN /\ res.kind = "ok"
                /\ Len(res.val) = WidthOf[arg[1][1]]
                /\ ShiftOr(res.val) = Magnitude
                /\ pos = prePos + HeadSize(prePos)
           ELSE /\ res.kind = "err"
                /\ arg[1][1] # "u64"
                /\ res.err = <<RangeError[arg[1][1]]>>
    /\ (OnUInt /\ res.kind = "ok") =>
           OnDefiniteHeader(0) /\ ShiftOr(res.val) = Magnitude

\* 65536 refused as a u16
C19_Witness ==
    /\ OnUInt /\ arg[1] = <<"u16">> /\ OnDefiniteHeader(0)
    /\ Magnitude = <<0, 0, 0, 0, 0, 1, 0, 0>>
    /\ res.kind = "err" /\ res.err = <<"ExpectedU16">>

\* ------------------------------------------------- the first error (C20)
\* The calls array_with / map_with make, replayed one by one from the source
\* r behind the header: the break check of an indefinite length, then the
\* item function.  FirstFailure is the first of them that fails, with the
\* number of calls of the item function made up to it; NoFailure when none
\* fails.
NoFailure == [kind |-> "none", err |-> <<>>, pos |-> -1, calls |-> 0]

FailureAt(x, i) == [kind |-> x.kind, err |-> x.err, pos |-> x.pos, calls |-> i]

RECURSIVE FirstFailure(_, _, _, _, _)
NextItem(x, len, f, i) ==
    IF Failed(x) THEN FailureAt(x, i) ELSE FirstFailure(x, len, f, x.val, i)

BreakThen(b, len, f, acc, i) ==
    IF Failed(b) THEN FailureAt(b, i)
    ELSE IF b.val[1] THEN NoFailure
    ELSE NextItem(ItemFn(f, b, acc, TRUE), len, f, i + 1)

FirstFailure(r, len, f, acc, i) ==
    IF IsIndefinite(len) THEN BreakThen(SpecialBreak(r), len, f, acc, i)
    ELSE IF NatLess(i, len[2]) THEN NextItem(ItemFn(f, r, acc, TRUE), len, f, i + 1)
    ELSE NoFailure

\* the header the helper read: array() or map() at Pre
OwnHeader == IF op = "array_with" THEN Array(Pre) ELSE Map(Pre)

EmptyOf(f) == IF f[1] = "push" THEN <<>> ELSE {}

\* the first failing call behind the header of the array or map at Pre
Failure == FirstFailure(OwnHeader, OwnHeader.val, arg, EmptyOf(arg), 0)

\* C20: array_with and map_with stop at the first error: when a call of the
\* item function, or the break check, fails, the helper returns that error
\* unchanged, the item function has been called no more often than up to
\* that call, and the read position is where the failing call left it.
C20_FirstErrorWins ==
    (/\ op \in {"array_with", "map_with"}
     /\ OwnHeader.kind = "ok"
     /\ Failure.kind # "none") =>
        /\ res.kind = Failure.kind
        /\ res.err = Failure.err
        /\ res.calls = Failure.calls
        /\ pos = Failure.pos

\* the second element of an array of three is no u8: two calls, and the
\* bytes behind the element are left
C20_Witness ==
    /\ op = "array_with" /\ arg = <<"push", <<"u8">>>> /\ Selector(prePos) = 3
    /\ res.kind = "err" /\ res.err[1] = "Expected"
    /\ res.calls = 2 /\ pos = prePos + 2 /\ pos + 2 <= Len(input)

\* ------------------------------------------------------- specials (C21)
\* the next byte is a Special
OnSpecial == Window >= 1 /\ Major(prePos) = 7

\* the Special the low five bits s of the byte at Pre stand for; a Float is
\* given by its subtype alone
SpecialClass ==
    CASE Selector(prePos) <= 19 -> <<"Unassigned", Selector(prePos)>>
      [] Selector(prePos) = 20 -> <<"Bool", FALSE>>
      [] Selector(prePos) = 21 -> <<"Bool", TRUE>>
      [] Selector(prePos) = 22 -> <<"Null">>
      [] Selector(prePos) = 23 -> <<"Undefined">>
      [] Selector(prePos) = 24 -> <<"Unassigned", input[prePos + 2]>>
      [] Selector(prePos) \in 25..27 -> <<"Float">>
      [] Selector(prePos) \in 28..30 -> <<"Unassigned", Selector(prePos)>>
      [] OTHER -> <<"Break">>

\* special() returned the Special of the byte at Pre and consumed 1, 2, 3, 5
\* or 9 bytes
SpecialVerdict ==
    /\ res.kind = "ok"
    /\ IF Selector(prePos) \in 25..27 THEN res.val[1] = "Float" ELSE res.val = SpecialClass
    /\ pos = prePos + HeadSize(prePos)

\* bool() succeeds exactly when special() returns a Bool, and returns it
BoolExactly ==
    op = "bool" =>
        /\ res.kind = "ok" <=> (Special(Pre).kind = "ok" /\ Special(Pre).val[1] = "Bool")
        /\ res.kind = "ok" =>
               /\ OnSpecial /\ Selector(prePos) \in {20, 21}
               /\ res.val = <<Selector(prePos) = 21>>
               /\ pos = prePos + 1
        /\ (OnSpecial /\ Selector(prePos) \in {20, 21}) => res.kind = "ok"

\* C21 as stated: special() classifies the low five bits s of a Special
\* byte: 0x00..0x13 Unassigned(s), 0x14 Bool(false), 0x15 Bool(true), 0x16
\* Null, 0x17 Undefined, 0x1c..0x1e Unassigned(s), 0x1f Break, each consuming
\* one byte; 0x18 Unassigned(next byte) consuming 2; 0x19, 0x1a, 0x1b a Float
\* consuming 3, 5 and 9; bool() succeeds exactly when special() returns Bool.
C21_Special ==
    /\ (op = "special" /\ OnSpecial /\ HeadPresent(prePos)) => SpecialVerdict
    /\ BoolExactly

\* C21 amended: the same for a Special whose bytes are visible whole in
\* the source's buffer; a Special of 2, 3, 5 or 9 bytes that is not all
\* buffered makes special() fail with NotEnough and consume nothing.
C21_SpecialVisible ==
    /\ (op = "special" /\ OnSpecial /\ Window >= HeadSize(prePos)) => SpecialVerdict
    /\ (op = "special" /\ OnSpecial /\ Window < HeadSize(prePos)) =>
           res.kind = "err" /\ res.err[1] = "NotEnough" /\ pos = prePos
    /\ BoolExactly

\* the one-byte simple value 1, from a buffered source
C21_Witness ==
    /\ op = "special" /\ OnSpecial /\ cap # 0 /\ Selector(prePos) = 24
    /\ res.kind = "ok" /\ res.val = <<"Unassigned", 1>> /\ pos = prePos + 2

\* ------------------------------------------------ truncated strings (C22)
\* bytes() or text() was called on a definite header of its own type
OnDefiniteString ==
    /\ op \in {"bytes", "text"}
    /\ Window >= 1
    /\ Major(prePos) = Wanted
    /\ Selector(prePos) <= 27
    /\ HeadPresent(prePos)

\* the n payload bytes the header at Pre declares are in the input
PayloadPresent == prePos + HeadSize(prePos) + Operand(prePos) <= Len(input)

\* what a successful bytes() or text() returned is all that was declared:
\* the whole payload of a definite string, every chunk of an indefinite one up
\* to its break, whole
AllDeclared ==
    /\ Window >= 1
    /\ Major(prePos) = Wanted
    /\ IF Selector(prePos) = 31
       THEN /\ HasByte(Stop) /\ input[Stop + 1] = 255
            /\ res.val = Payloads(prePos + 1, Stop)
            /\ pos = Stop + 1
       ELSE /\ OnDefiniteString /\ PayloadPresent
            /\ res.val = Payload(prePos)
            /\ pos = prePos + HeadSize(prePos) + Operand(prePos)

\* no value comes from a string or chunk that is cut short
NeverShort ==
    /\ (op \in {"bytes", "text"} /\ res.kind = "ok") => AllDeclared
    /\ (OnDefiniteString /\ ~PayloadPresent) => res.kind # "ok"
    /\ (OnIndefinite /\ ~(HasByte(Stop) /\ input[Stop + 1] = 255)) => res.kind # "ok"

\* the payload can be returned: any bytes, valid UTF-8 for text()
Returnable == op = "text" => Utf8From(Payload(prePos), 1)

\* C22 as stated: bytes() and text() return no value shorter than declared:
\* a definite string of declared length n, and every chunk of declared
\* length n of an indefinite string, succeeds only if n payload bytes are
\* behind its header: exactly n present succeeds, n - 1 present fails; on
\* truncated input the call fails and returns no partial value.
C22_ExactCount ==
    /\ NeverShort
    /\ (OnDefiniteString /\ PayloadPresent /\ Returnable) =>
           res.kind = "ok" /\ res.val = Payload(prePos)

\* C22 amended: the same, a definite string of exactly n payload bytes
\* succeeding when its header is visible whole in the source's buffer; a
\* header whose extra bytes are not all buffered fails with NotEnough.
C22_NeverShort ==
    /\ NeverShort
    /\ (OnDefiniteString /\ PayloadPresent /\ Returnable /\ Window >= HeadSize(prePos)) =>
           res.kind = "ok" /\ res.val = Payload(prePos)
    /\ (OnDefiniteString /\ Window < HeadSize(prePos)) =>
           res.kind = "err" /\ res.err[1] = "NotEnough"

\* an indefinite byte string whose last chunk lacks a byte: no value
C22_Witness ==
    /\ OnIndefinite /\ op = "bytes" /\ res.kind = "err"
    /\ Stop > prePos + 1 /\ HasByte(Stop) /\ HeadPresent(Stop)
    /\ Major(Stop) = 2 /\ Selector(Stop) <= 23
    /\ Stop + 1 + Operand(Stop) = Len(input) + 1

\* ------------------------------------------------- duplicate keys (C23)
\* the pairs of a key of type K and a value of type V encoded from q up to
\* stop, in order
RECURSIVE PairVals(_, _, _, _)
PairVals(K, V, q, stop) ==
    IF q >= stop THEN <<>>
    ELSE <<<<ElemVal(K, q), ElemVal(V, q + HeadSize(q))>>>>
             \o PairVals(K, V, q + PairSize(q), stop)

\* some key occurs twice among the pairs ps
HasDuplicate(ps) == \E i, j \in 1..Len(ps) : i < j /\ ps[i][1] = ps[j][1]

\* the map that holds for each key of ps the value of its last occurrence
LastWins(ps) ==
    {ps[i] : i \in {j \in 1..Len(ps) : \A k \in (j + 1)..Len(ps) : ps[k][1] # ps[j][1]}}

\* a BTreeMap is decoded from a well-formed map whose headers are all
\* visible when they are read
OnWholeMap ==
    /\ op = "deserialize" /\ arg[1][1] = "BTreeMap"
    /\ MapEnd(arg[1][2], arg[1][3]) # -1
    /\ HeadsVisible(prePos + 1, LastElemEnd(MapEnd(arg[1][2], arg[1][3])))

\* the pairs of that map
MapPairs ==
    PairVals(arg[1][2], arg[1][3], prePos + 1, LastElemEnd(MapEnd(arg[1][2], arg[1][3])))

\* C23 as stated: decoding a BTreeMap<K, V> from a map in which a key
\* occurs more than once succeeds, and the map returned holds for each key
\* the value of its last occurrence: a duplicate key is no error.
C23_LastWriteWins ==
    (OnWholeMap /\ HasDuplicate(MapPairs)) =>
        /\ res.kind = "ok"
        /\ res.val = LastWins(MapPairs)
        /\ pos = MapEnd(arg[1][2], arg[1][3])

\* ------------------------------------------------ arrays of bytes (C24)
\* an unsigned integer of at most 255 is encoded whole at q
ByteOk(q) ==
    /\ HeadPresent(q) /\ Major(q) = 0 /\ Selector(q) <= 27
    /\ \A i \in 1..(HeadSize(q) - 2) : input[q + 1 + i] = 0

ByteVal(q) == IF HeadSize(q) = 1 THEN Selector(q) ELSE input[q + HeadSize(q)]

\* where n such integers that start at q end; -1 when one is missing
RECURSIVE BytesEnd(_, _)
BytesEnd(q, n) ==
    IF n = 0 THEN q
    ELSE IF ~ByteOk(q) THEN -1
    ELSE BytesEnd(q + HeadSize(q), n - 1)

RECURSIVE ByteVals(_, _)
ByteVals(q, stop) ==
    IF q >= stop THEN <<>> ELSE <<ByteVal(q)>> \o ByteVals(q + HeadSize(q), stop)

\* a [u8; N] is decoded and the next byte opens an array
OnStaticArray ==
    /\ op = "deserialize" /\ arg[1][1] = "Array"
    /\ Window >= 1 /\ Major(prePos) = 4 /\ Selector(prePos) \notin 28..30

\* the length the array header at Pre states
ActualLen == IF Selector(prePos) = 31 THEN <<"Indefinite">> ELSE <<"Len", Magnitude>>

\* where the N elements behind the header end; -1 when they are not N bytes
ElementsEnd == BytesEnd(prePos + HeadSize(prePos), arg[1][2])

\* the outcome once the header is read: WrongLen with no element decoded
\* for an array that is indefinite or not of N elements; for one of N elements
\* the N bytes in order when each element is a u8 whose header is visible
\* when it is read, and no value when an element is no u8
StaticArrayVerdict ==
    IF ActualLen # <<"Len", ShiftOr(<<arg[1][2]>>)>>
    THEN /\ res.kind = "err"
         /\ res.err = <<"WrongLen", arg[1][2], ActualLen, "static array">>
         /\ HeaderOnly
    ELSE IF ElementsEnd = -1 THEN res.kind = "err"
    ELSE HeadsVisible(prePos + HeadSize(prePos), ElementsEnd) =>
             /\ res.kind = "ok"
             /\ res.val = ByteVals(prePos + HeadSize(prePos), ElementsEnd)
             /\ pos = ElementsEnd

\* a value returned is the N bytes of a definite array of N elements
StaticArrayOkOnly ==
    (op = "deserialize" /\ arg[1][1] = "Array" /\ res.kind = "ok") =>
        /\ OnStaticArray /\ HeadPresent(prePos)
        /\ ActualLen = <<"Len", ShiftOr(<<arg[1][2]>>)>>
        /\ ElementsEnd # -1
        /\ res.val = ByteVals(prePos + HeadSize(prePos), ElementsEnd)
        /\ pos = ElementsEnd

\* C24 as stated: decoding a [u8; N] succeeds exactly when the next item is
\* a definite array of exactly N elements that each decode as a u8, and
\* returns those N bytes in order; a definite array of another length and an
\* indefinite array fail with WrongLen(N, actual, "static array") before an
\* element is decoded.
C24_StaticArray ==
    /\ (OnStaticArray /\ HeadPresent(prePos)) =>
           /\ StaticArrayVerdict
           /\ (ActualLen = <<"Len", ShiftOr(<<arg[1][2]>>)>> /\ ElementsEnd # -1) =>
                  res.kind = "ok"
    /\ StaticArrayOkOnly

\* C24 amended: the same for an array whose header, and the header of each
\* element, is visible whole in the source's buffer when it is read; a header
\* whose extra bytes are not all buffered makes the call fail with NotEnough.
C24_StaticArrayVisible ==
    /\ (OnStaticArray /\ Window >= HeadSize(prePos)) => StaticArrayVerdict
    /\ (OnStaticArray /\ Selector(prePos) <= 27 /\ Window < HeadSize(prePos)) =>
           res.kind = "err" /\ res.err[1] = "NotEnough" /\ pos = prePos
    /\ (/\ OnStaticArray /\ Window >= HeadSize(prePos)
        /\ ActualLen = <<"Len", ShiftOr(<<arg[1][2]>>)>> /\ ElementsEnd # -1
        /\ res.kind # "ok") =>
           res.kind = "err" /\ res.err[1] = "NotEnough"
    /\ StaticArrayOkOnly

\* 24 bytes, from an array whose header has two bytes
C24_Witness ==
    /\ OnStaticArray /\ arg[1][2] = 24 /\ res.kind = "ok"
    /\ res.val = Ramp /\ pos = prePos + 26

\* ---------------------------------------------------------------- C25
\* the readers that consume one header and nothing else
OneHeaderReaders ==
    {"unsigned_integer", "negative_integer", "array", "map", "tuple", "tag",
     "set_tag", "special", "special_break", "bool"}

\* the readers that consume a header and then go on reading
ContentReaders == {"bytes", "text", "array_with", "map_with"}

\* the call consumed something, so it called advance for the header at prePos
Advanced == op \in OneHeaderReaders \cup ContentReaders /\ pos # prePos

\* the header the next cbor_len would decode is visible whole in the buffer
\* that cbor_len leaves, so that the advance(1 + len_sz) that follows it in
\* every reader is covered
PeekCovers(l) == Failed(l) \/ 1 + l.val[2] <= l.avail - l.pos

\* C25: every advance(n) a reader issues is covered by a peek: a reader that
\* consumed the header at its start consumed it from a buffer that showed all
\* of its n bytes (n = 1 + extra; 1, 2, 3, 5 or 9 in special; 1 in
\* special_break), a reader of one header moved the read position by exactly
\* n and not past the end of the buffer, and at every reachable position a
\* cbor_len that succeeds leaves at least 1 + len_sz bytes visible.
C25_AdvanceCovered ==
    /\ Advanced => HeadSize(prePos) <= Window
    /\ (Advanced /\ op \in OneHeaderReaders) =>
           pos = prePos + HeadSize(prePos) /\ pos <= avail
    /\ PeekCovers(CborLen(Here))

\* special consumed a two-byte header (0xf8 and its operand) from a buffer
\* that showed exactly these two bytes
C25_Witness ==
    /\ op = "special" /\ res.kind = "ok"
    /\ cap = BufCap /\ Window = 2
    /\ pos = prePos + 2 /\ pos = avail

\* ---------------------------------------------------------------- C26
\* the same read from two sources over the same bytes.  The inputs hold one
\* complete value of every major type behind headers of one to nine bytes,
\* at the start of the input or behind a one-byte item, so that a buffered
\* source shows the header whole, in part, or across two fills.
WholeValues ==
    { <<1>>, <<24, 200>>, <<25, 1, 2>>, <<26, 0, 0, 1, 2>>,
      <<27, 0, 0, 0, 0, 0, 0, 1, 2>>,
      <<32>>, <<56, 5>>, <<57, 1, 2>>,
      <<67, 97, 98, 99>>, <<88, 1, 97>>, <<89, 0, 1, 97>>,
      <<95, 65, 97, 88, 1, 98, 255>>,
      <<99, 97, 98, 99>>, <<120, 1, 97>>, <<127, 97, 97, 120, 1, 98, 255>>,
      <<129>>, <<152, 1>>, <<153, 0, 1>>, <<159>>,
      <<161>>, <<184, 1>>, <<185, 0, 1>>,
      <<193>>, <<216, 24>>, <<217, 1, 2>>,
      <<244>>, <<245>>, <<248, 32>>, <<249, 1, 2>>, <<250, 0, 0, 1, 2>>,
      <<251, 0, 0, 0, 0, 0, 0, 1, 2>>, <<255>> }

TwoInputs == WholeValues \cup {<<0>> \o v : v \in WholeValues}

InitTwo == InitWith(TwoInputs)

TwoReaders ==
    {"unsigned_integer", "negative_integer", "bytes", "text", "array", "map",
     "tag", "special", "special_break", "bool"}

\* the reader `name` called on the source r; `choice` is what the build and
\* the allocator decide (overflow checks, a large allocation)
Primitive(name, r, choice) ==
    CASE name = "unsigned_integer" -> UnsignedInteger(r)
      [] name = "negative_integer" -> NegativeInteger(r, choice)
      [] name = "bytes" -> Bytes(r, choice)
      [] name = "text" -> Text(r, choice)
      [] name = "array" -> Array(r)
      [] name = "map" -> Map(r)
      [] name = "tag" -> Tag(r)
      [] name = "special" -> Special(r)
      [] name = "special_break" -> SpecialBreak(r)
      [] OTHER -> Bool(r)

\* a reader is called on the current source
DoRead ==
    /\ op # "from"
    /\ \E name \in TwoReaders : \E choice \in BOOLEAN :
           Call(name, <<choice>>, Primitive(name, Here, choice))

\* a second Deserializer is made from another source over the same bytes,
\* at the position where the last read began and with nothing buffered;
\* what the last read returned, where it stopped and how many bytes it was
\* shown are kept for the comparison
DoFrom ==
    /\ op \in TwoReaders
    /\ cap' \in Caps
    /\ op' = "from"
    /\ arg' = <<op, arg[1], res, pos,
                IF prePos < preAvail THEN preAvail - prePos
                ELSE IF cap = 0 THEN Len(input) - prePos
                ELSE Min(cap, Len(input) - prePos)>>
    /\ res' = NoRes
    /\ pos' = prePos
    /\ avail' = prePos
    /\ UNCHANGED <<input, prePos, preAvail>>

\* the same reader is called on the second source
DoReadAgain ==
    /\ op = "from"
    /\ Call("again", arg, Primitive(arg[1], Here, arg[2]))

NextTwo == DoRead \/ DoFrom \/ DoReadAgain

SpecTwo == InitTwo /\ [][NextTwo]_vars

\* the second read returned what the first did and stopped where it did
SameOnBoth == res = arg[3] /\ pos = arg[4]

IsNotEnough(x) == x.kind = "err" /\ x.err[1] = "NotEnough"

\* the reader called twice decodes one header and nothing else
AgainOneHeader == op = "again" /\ arg[1] \in TwoReaders \ {"bytes", "text"}

\* C26 as stated: when the bytes hold a complete value, which one of the two
\* sources shows by returning it, the same reader returns the same result
\* and leaves the same read position from the other source, however the
\* two sources cut the bytes into buffers.
C26_BufferIndependent ==
    (op = "again" /\ (res.kind = "ok" \/ arg[3].kind = "ok")) => SameOnBoth

\* C26, amended: two reads of the same bytes from sources with different
\* buffers return the same result and leave the same position, unless one
\* of them fails with NotEnough; a reader of one header agrees on the two
\* sources when both show the header whole, and a source that shows only a
\* part of the header fails with NotEnough and consumes nothing.
C26_SameUnlessCut ==
    /\ op = "again" => (SameOnBoth \/ IsNotEnough(res) \/ IsNotEnough(arg[3]))
    /\ (/\ AgainOneHeader /\ Window >= 1
        /\ Window >= HeadSize(prePos) /\ arg[5] >= HeadSize(prePos)) => SameOnBoth
    /\ (op = "again" /\ arg[1] \in {"bytes", "text"} /\ Window >= 1
        /\ Selector(prePos) # 31
        /\ Window >= HeadSize(prePos) /\ arg[5] >= HeadSize(prePos)) => SameOnBoth
    /\ (AgainOneHeader /\ Window >= 1 /\ Window < HeadSize(prePos) /\ ~SameOnBoth) =>
           IsNotEnough(res) /\ pos = prePos

\* a three-byte payload read whole from memory and from a buffer of two bytes
\* that holds the header and the first byte of it
C26_Witness ==
    /\ op = "again" /\ arg[1] = "bytes" /\ cap = BufCap
    /\ res.kind = "ok" /\ res.val = <<97, 98, 99>>
    /\ SameOnBoth /\ arg[5] > 2

\* ---------------------------------------------------------------- C27
\* the indefinite-length loops of bytes(), text() and internal_items_with,
\* one iteration at a time.  While a loop runs res.kind is "loop" and
\* res.val is what was accumulated so far; prePos is the read position
\* before the last iteration.
LoopTokens(t) ==
    { <<32 * t>>, <<32 * t + 1, 97>>, <<32 * t + 24, 1, 98>>, <<255>>,
      <<32 * t + 31>>, <<244>>, <<1>> }

\* a chunk that declares 2^63 bytes
HugeChunk(t) == <<32 * t + 31, 32 * t + 27, 128, 0, 0, 0, 0, 0, 0, 0, 97>>

LoopInputs ==
    UNION {{<<32 * t + 31>> \o s : s \in Concats(LoopTokens(t), MaxChunks)} : t \in {2, 3}}
        \cup {<<h>> \o s : h \in {159, 191}, s \in Concats(SeqTokens, MaxElems)}
        \cup {HugeChunk(2), HugeChunk(3)}

InitLoop == InitWith(LoopInputs)

\* the body of the loop returned k: an error leaves the function, otherwise
\* the loop test is made again
LoopAgain(k) == IF Failed(k) THEN k ELSE [k EXCEPT !.kind = "loop"]

\* `while self.cbor_type()? != Type::Special || !self.special_break()?`
\* of bytes(), once: c is the outcome of cbor_type, b of special_break
BytesIterationBreak(b, acc) ==
    IF Failed(b) THEN b
    ELSE IF b.val[1] THEN Ok(b, acc)
    ELSE LoopAgain(BytesChunk(b, acc))

BytesIterationTest(c, acc) ==
    IF Failed(c) THEN c
    ELSE IF c.val[1] # "Special" THEN LoopAgain(BytesChunk(c, acc))
    ELSE BytesIterationBreak(SpecialBreak(c), acc)

BytesIteration(r, acc) == BytesIterationTest(CborType(r), acc)

\* the same loop of text(), once
TextIterationBreak(b, acc, allocOk) ==
    IF Failed(b) THEN b
    ELSE IF b.val[1] THEN Ok(b, acc)
    ELSE LoopAgain(TextChunk(b, acc, allocOk))

TextIterationTest(c, acc, allocOk) ==
    IF Failed(c) THEN c
    ELSE IF c.val[1] # "Special" THEN LoopAgain(TextChunk(c, acc, allocOk))
    ELSE TextIterationBreak(SpecialBreak(c), acc, allocOk)

TextIteration(r, acc, allocOk) == TextIterationTest(CborType(r), acc, allocOk)

\* `f(self)?` in internal_items_with: the collection the closure fills is
\* the caller's, the loop keeps the reader and nothing else
ItemDone(x) == IF Failed(x) THEN x ELSE Ok(x, <<>>)

\* `while !self.special_break()? { f(self)?; }`, once
ItemsIterationBreak(b, f, allocOk) ==
    IF Failed(b) THEN b
    ELSE IF b.val[1] THEN Ok(b, <<>>)
    ELSE LoopAgain(ItemDone(ItemFn(f, b, IF f[1] = "push" THEN <<>> ELSE {}, allocOk)))

ItemsIteration(r, f, allocOk) == ItemsIterationBreak(SpecialBreak(r), f, allocOk)

\* the reader up to its loop, on a header l that is of its type and
\* indefinite: the header is consumed and the loop test is made
EnterLoopOf(l) == LoopAgain(Ok(Advance(l, 1 + l.val[2]), <<>>))

\* the header is of the reader's type and indefinite
EntersLoop(t) == ~Failed(ExpectedLen(Here, t)) /\ IsIndefinite(ExpectedLen(Here, t).val[1])

DoEnterBytes ==
    /\ res.kind # "loop" /\ EntersLoop("Bytes")
    /\ Call("bytes", <<>>, EnterLoopOf(ExpectedLen(Here, "Bytes")))

DoEnterText ==
    /\ res.kind # "loop" /\ EntersLoop("Text")
    /\ Call("text", <<>>, EnterLoopOf(ExpectedLen(Here, "Text")))

DoEnterArrayWith ==
    /\ res.kind # "loop" /\ EntersLoop("Array")
    /\ \E f \in ItemFns :
           Call("array_with", f, EnterLoopOf(ExpectedLen(Here, "Array")))

DoEnterMapWith ==
    /\ res.kind # "loop" /\ EntersLoop("Map")
    /\ \E f \in PairFns :
           Call("map_with", f, EnterLoopOf(ExpectedLen(Here, "Map")))

DoBytesIteration ==
    /\ res.kind = "loop" /\ op = "bytes"
    /\ Call("bytes", arg, BytesIteration(Here, res.val))

DoTextIteration ==
    /\ res.kind = "loop" /\ op = "text"
    /\ \E allocOk \in BOOLEAN : Call("text", arg, TextIteration(Here, res.val, allocOk))

DoItemsIteration ==
    /\ res.kind = "loop" /\ op \in {"array_with", "map_with"}
    /\ Call(op, arg, ItemsIteration(Here, arg, TRUE))

DoIteration == DoBytesIteration \/ DoTextIteration \/ DoItemsIteration

NextLoop ==
    \/ DoEnterBytes
    \/ DoEnterText
    \/ DoEnterArrayWith
    \/ DoEnterMapWith
    \/ DoBytesIteration
    \/ DoTextIteration
    \/ DoItemsIteration

SpecLoop == InitLoop /\ [][NextLoop]_vars

InLoop == res.kind = "loop"

\* what the next iteration of the running loop returns
NextIteration ==
    CASE op = "bytes" -> BytesIteration(Here, res.val)
      [] op = "text" -> TextIteration(Here, res.val, TRUE)
      [] OTHER -> ItemsIteration(Here, arg, TRUE)

\* ENABLED <<DoIteration>>_<<pos, res.kind>>: a loop runs and its next
\* iteration moves the read position or leaves the loop
IterationEnabled ==
    InLoop /\ (NextIteration.pos # pos \/ NextIteration.kind # "loop")

\* a loop that was entered runs on: the code between two loop tests is
\* sequential and blocks nowhere but in the reads of the source.  This is
\* WF_<<pos, res.kind>>(DoIteration) with its ENABLED written as the state
\* predicate above.
SpecLoopFair ==
    /\ SpecLoop
    /\ ([]<>(~IterationEnabled) \/ []<><<DoIteration>>_<<pos, res.kind>>)

\* the loop is at the end of the input and the next iteration reports it
ExhaustionReported == (InLoop /\ pos = Len(input)) => NextIteration.kind = "err"

\* C27: every read terminates: in the indefinite-length loops of bytes(),
\* text() and of array_with/map_with with the built-in item decoders, an
\* iteration after which the loop goes on has consumed at least one byte, at
\* the end of the input the next iteration returns an error, and a loop that
\* was entered is left (by a break, an error, or the panic of C12 in the
\* allocation of a text chunk), it does not run forever.
C27_Terminates ==
    /\ [](InLoop => pos > prePos)
    /\ []ExhaustionReported
    /\ (InLoop ~> ~InLoop)

\* text() left its loop at the break after two chunks
C27_Witness ==
    /\ op = "text" /\ res.kind = "ok" /\ res.val = <<97, 98>>
    /\ input = <<127, 97, 97, 120, 1, 98, 255>> /\ pos = 7 /\ prePos = 6
====
